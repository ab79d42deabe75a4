-------------------------------- MODULE DataMC --------------------------------
(***************************************************************************)
(* Small instances of the data structures, of numbers, ciphers, compression  *)
(* and templates and of the log, which share nothing: a behaviour shows one  *)
(* of them, the others rest.                                                *)
(***************************************************************************)
EXTENDS BBTree, Search, Rings, Bignum, Enigma, Pattern, Logs,
        JsonObject, Buffers, Config, QuickLz, MemZip, Checksums, Des, Services,
        TLC

VARIABLE part

\* Texts to compress: three parts, each of them repeated a number of times.
Times(b, n) == [i \in 1 .. n * Len(b) |-> b[((i - 1) % Len(b)) + 1]]
Threefold(parts, times) ==
  LET repeated == {Times(b, n) : b \in parts, n \in times}
  IN {x \o y \o z : x \in repeated, y \in repeated, z \in repeated}
LzParts == Threefold({<<0>>, <<2, 0, 1>>, <<0, 0, 1>>, <<0, 1, 2, 3>>, <<0, 1, 1, 0, 2>>}, {1, 2, 8})
ZipParts == Threefold({<<0>>, <<0, 1>>, <<0, 0, 1>>, <<2, 0, 4, 3>>, <<2>>, <<0, 1, 1, 0, 2>>}, {1, 2, 5})
OffsetWidths == <<2, 4, 3, 5>>
LengthWidths == <<1, 2, 4>>
Ones == {<<Half - 1, Half - 1>>}

\* Keys: the weak ones, neighbours of them, any; passwords that are short, long, of
\* bytes above 127, with salts of letters, of none of the 64 characters, empty.
SomeKeys ==
  weak_keys \cup {<<1, 2, 3, 4, 5, 6, 7, 8>>, <<255, 0, 17, 33, 129, 200, 90, 3>>, <<1, 1, 1, 1, 1, 1, 1, 2>>,
                  <<1, 1, 1, 1, 1, 1, 1, 7>>, <<0, 0, 0, 0, 0, 0, 0, 0>>, <<128, 1, 1, 1, 1, 1, 1, 1>>,
                  <<31, 31, 31, 31, 14, 14, 14, 16>>, <<1, 254, 1, 254, 1, 254, 254, 1>>}
SomePasswords ==
  {[password |-> p[1], salt |-> p[2]] :
     p \in {<<<<97>>, <<97, 98>>>>, <<<<112, 97, 115, 115, 119, 111, 114, 100>>, <<46, 46>>>>,
            <<<<120, 255, 98, 200>>, <<1, 2>>>>, <<<<>>, <<0, 122>>>>,
            <<<<49, 50, 51, 52, 53, 54, 55, 56, 57, 48>>, <<125, 123>>>>}}
SomeNumbers == {{0, 5, 14, 16, 20, 30, 64, 127}, {14, 15, 16, 17, 18, 19, 23, 40}, {3, 22, 90}}
SomeFamily == [i \in 0 .. 31 |-> {p \in 0 .. 31 : (p * p + 7 * i * p + i * i * i) % 5 < 2}]

\* Lines of up to two pieces, with signs that are none of a reference, of which one
\* sets a variable to what looks like one.
References == {[kind |-> k, text |-> t] : k \in {"braced", "plain"}, t \in {<<"a">>, <<"a", "b">>}}
PlainTexts == {[kind |-> "text", text |-> t] : t \in {<<"b">>, <<"$">>, <<"}", "=">>, <<".", " ">>}}
LinePieces == UNION {[1 .. n -> References \cup PlainTexts] : n \in {1, 2}}
SomeEnvLines ==
  {[kind |-> "set", name |-> n, pieces |-> p] : n \in {<<"a">>, <<"a", "b">>}, p \in LinePieces}
    \cup {[kind |-> "skip", text |-> t] : t \in {<<>>, <<" ", "#", "$", "a">>}}
OldEnvironment == [n \in {<<"b">>, <<"a">>} |-> IF n = <<"b">> THEN <<"$", "a">> ELSE <<"b">>]
LabelCrcs == [l \in Labels |-> IF l = "x" THEN 7 ELSE 8]
SomeKeyLines ==
  {[num |-> 7, name |-> "k"], [num |-> 7, name |-> "m"], [num |-> 8, name |-> "m"],
   [num |-> 0, name |-> "comment"]}
SomeAuthLines ==
  {[what |-> "label", name |-> l[1], apart |-> l[2]] : l \in {<<"x", FALSE>>, <<"x", TRUE>>, <<"y", FALSE>>}} \cup {[what |-> "skip"]}
    \cup {[what |-> "item", key |-> i[1], value |-> i[2], indent |-> i[3]] :
            i \in {<<"UID", <<"u">>, 0>>, <<"UID", <<"@", "k", "v">>, 0>>, <<"USERNAME", <<"w">>, 0>>,
                   <<"SID", <<"d">>, 0>>, <<"SID", <<"d">>, 1>>}}

\* Names whose sums collide in tables of different sizes; files of any rights.
SumsOfNames == ("n1" :> 3) @@ ("n2" :> 7) @@ ("n3" :> 8) @@ ("n4" :> 15) @@ ("n5" :> 13)
TurnedEvents == [e \in Events |-> 3 - e]
Regular(root, owner, rights) ==
  [mode |-> "regular", root |-> root, group |-> FALSE, owner |-> owner, readable |-> rights]
SomeStatus ==
  {[mode |-> "none"], [mode |-> "other"], Regular(TRUE, FALSE, {}), Regular(FALSE, TRUE, {"user"}),
   Regular(FALSE, TRUE, {"group"})}
SomeFiles == {<<"/", "d", "/">>, <<"#">>, <<"/", "d", "/", "b">>, <<"d", "i", "r">>}

dataVars == <<part, treeVars, searchVars, hashVars, ringVars, bigVars, enigmaVars,
              patternVars, logVars, linkVars, bufferVars, configVars,
              lzVars, zipVars, refVars, crcVars, md5Vars,
              desVars, confVars, serviceVars>>

DataInit ==
  /\ part \in {"tree", "search", "hash", "rings", "number", "cipher", "pattern", "log",
              "members", "buffers", "config", "quicklz", "memzip", "refs",
              "crc", "md5", "des", "configured", "services"}
  /\ TreeInit /\ SearchInit /\ HashInit /\ RingInit
  /\ BigInit /\ EnigmaInit /\ PatternInit /\ LogInit /\ LinkInit /\ BufferInit
  /\ ConfigInit /\ LzInit /\ ZipInit /\ RefsInit
  /\ CrcInit /\ Md5Init /\ DesInit /\ ConfInit /\ ServiceInit

DataNext ==
  /\ UNCHANGED part
  /\ IF part = "tree" THEN TreeNext ELSE UNCHANGED treeVars
  /\ IF part = "search" THEN SearchNext ELSE UNCHANGED searchVars
  /\ IF part = "hash" THEN HashNext ELSE UNCHANGED hashVars
  /\ IF part = "rings" THEN RingNext ELSE UNCHANGED ringVars
  /\ IF part = "number" THEN BigNext ELSE UNCHANGED bigVars
  /\ IF part = "cipher" THEN EnigmaNext ELSE UNCHANGED enigmaVars
  /\ IF part = "pattern" THEN PatternNext ELSE UNCHANGED patternVars
  /\ IF part = "log" THEN LogNext ELSE UNCHANGED logVars
  /\ IF part = "members" THEN LinkNext ELSE UNCHANGED linkVars
  /\ IF part = "buffers" THEN BufferNext ELSE UNCHANGED bufferVars
  /\ IF part = "config" THEN ConfigNext ELSE UNCHANGED configVars
  /\ IF part = "quicklz" THEN LzNext ELSE UNCHANGED lzVars
  /\ IF part = "memzip" THEN ZipNext ELSE UNCHANGED zipVars
  /\ IF part = "refs" THEN RefsNext ELSE UNCHANGED refVars
  /\ IF part = "crc" THEN CrcNext ELSE UNCHANGED crcVars
  /\ IF part = "md5" THEN Md5Next ELSE UNCHANGED md5Vars
  /\ IF part = "des" THEN DesNext ELSE UNCHANGED desVars
  /\ IF part = "configured" THEN ConfNext ELSE UNCHANGED confVars
  /\ IF part = "services" THEN ServiceNext ELSE UNCHANGED serviceVars

DataSpec == DataInit /\ [][DataNext]_dataVars

\* What is in an array, sorted or hashed, in a JSON object or in the file of the pools
\* is found and nothing else, in tables and buffers that grow as they must; a JSON
\* value lives as long as somebody refers to it; a variable, a key, an account and a
\* service have what was written for them, and a package its one answer
\* (Binary_search.c, bound.c, tbound.c, multi_hash.c, linkhash.c, printbuf.c,
\* arraylist.c, json_object.c, scpool.c, envcfg.c, getdw.c, openauth.c, getsvc.c,
\* getls.c, filelist.c, rexec.c, dmapp.c).
LookupsRight ==
  /\ SearchesRight /\ HashFinds /\ MembersKept /\ BuffersHold /\ ConfigRight /\ RefsRight
  /\ ConfTextsRight /\ ServicesRight

\* Both ends of a key exchange compute the same numbers and read what the other
\* has encrypted and compressed; checksums, digests and what crypt makes of a password
\* are those they are defined to be (bignum.c, expmod.c, a64n.c, enigma.c, quicklz.c,
\* memzip.c, crc.c, crc32.c, md5_dgst.c, fcrypt.c, set_key.c, prikey128.c).
CryptoRight ==
  /\ NumbersRight /\ CipherRight /\ LzBack /\ ZipBack /\ ZipFits /\ ChecksRight /\ DigestRight
  /\ DesRight
=============================================================================
