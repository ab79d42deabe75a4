-------------------------------- MODULE Enigma ---------------------------------
(***************************************************************************)
(* The rotor machine of crypto/enigma.c and enigma2.c, with which packages  *)
(* are encrypted: a rotor t1, its inverse t2 and a reflector t3 that joins  *)
(* the points in pairs.  Characters are points, arithmetic on them wraps.   *)
(***************************************************************************)
EXTENDS Integers, Sequences, FiniteSets, Bitwise

CONSTANTS
  ROTORSZ,     \* points of a rotor (256 in the code), a power of 2
  Turn,        \* the rotor turns by 1 to Turn points (32 in the code)
  KeySeeds,    \* what crc32 yields for a key (a sample)
  KeyChars,    \* characters of the keys and texts (a sample)
  MaxText      \* their lengths (a bound of the model)

ASSUME EnigmaAssumption ==
  /\ ROTORSZ \in Nat /\ ROTORSZ % 2 = 0 /\ Turn \in 1 .. ROTORSZ /\ ROTORSZ % Turn = 0
  /\ KeySeeds \subseteq Nat /\ KeyChars \subseteq 0 .. ROTORSZ - 1 /\ MaxText \in Nat

VARIABLES ep,     \* [t1, t2, t3, r: another machine, crc]
          text    \* what is to be sent

enigmaVars == <<ep, text>>

Points == 0 .. ROTORSZ - 1
Mask(x) == x % ROTORSZ
Swapped(t, i, j) == [t EXCEPT ![i] = t[j], ![j] = t[i]]

-----------------------------------------------------------------------------
(* enigma_init *)

\* The next point below k that is not joined.
RECURSIVE FreeFrom(_, _, _)
FreeFrom(t3, ic, k) == IF t3[ic] = 0 THEN ic ELSE FreeFrom(t3, (ic + 1) % k, k)

\* From the last point down: a swap in the rotor and, if the point is not joined
\* yet, a pair in the reflector.  0 in t3 is "not joined".
RECURSIVE Mixed(_, _, _, _, _)
Mixed(k, t1, t3, seed, key) ==
  LET i == ROTORSZ - 1 - k
      now == 2 * seed + key[(i % Len(key)) + 1]
      random == now % 65529
      ic == FreeFrom(t3, Mask(random) % k, k)
  IN IF k < 0 THEN [t1 |-> t1, t3 |-> t3]
     ELSE Mixed(k - 1, Swapped(t1, k, random % (k + 1)),
                IF t3[k] # 0 THEN t3 ELSE [t3 EXCEPT ![k] = ic, ![ic] = k], now, key)

RECURSIVE Summed(_)
Summed(s) == IF s = <<>> THEN 0 ELSE s[1] + Summed(Tail(s))

\* The key is cut to its last ROTORSZ characters.
enigma_init(key, crc) ==
  LET ic == crc + Summed(key)
      last == IF Len(key) > ROTORSZ THEN SubSeq(key, Len(key) - ROTORSZ + 1, Len(key)) ELSE key
      m == Mixed(ROTORSZ - 1, [i \in Points |-> Mask(i + ic)], [i \in Points |-> 0], crc, last)
  IN [t1 |-> m.t1, t3 |-> m.t3,
      t2 |-> [p \in Points |-> CHOOSE i \in Points : m.t1[i] = p]]

-----------------------------------------------------------------------------
(* enigma, enigma_encrypt, enigma_decrypt *)

\* n2=t[len&1][(len>>9)&MASK], n1=t3[(len>>1)&MASK]
Start(e, len) ==
  [n2 |-> IF len % 2 = 0 THEN e.t1[Mask(len \div (2 * ROTORSZ))]
          ELSE e.t2[Mask(len \div (2 * ROTORSZ))],
   n1 |-> e.t3[Mask(len \div 2)]]

\* The rotor turns by d points, the other one when it has turned round.
Turned(at, d) ==
  [n1 |-> Mask(at.n1 + d),
   n2 |-> IF at.n1 + d >= ROTORSZ THEN Mask(at.n2 + 1) ELSE at.n2]

\* Through the rotor, the reflector and back.
Reflected(e, at, x) == Mask(e.t3[Mask(x + at.n2)] - at.n2)
Through(e, at, c) == Mask(e.t2[Reflected(e, at, e.t1[Mask(c + at.n1)])] - at.n1)

RECURSIVE EnigmaFrom(_, _, _)
EnigmaFrom(e, s, at) ==
  IF s = <<>> THEN <<>>
  ELSE <<Through(e, at, s[1])>> \o EnigmaFrom(e, Tail(s), Turned(at, 1))
enigma(e, s) == EnigmaFrom(e, s, Start(e, Len(s)))

\* The turn depends on the point x of the text inside the machine.
RECURSIVE EncryptFrom(_, _, _)
EncryptFrom(e, s, at) ==
  IF s = <<>> THEN <<>>
  ELSE LET x == e.t1[Mask(s[1] + at.n1)]
       IN <<Through(e, at, s[1])>> \o EncryptFrom(e, Tail(s), Turned(at, (x % Turn) + 1))
enigma_encrypt(e, s) == EncryptFrom(e, s, Start(e, Len(s)))

\* Mutant: the turn is taken from the point the cipher enters by.
RECURSIVE DecryptEntered(_, _, _)
DecryptEntered(e, s, at) ==
  IF s = <<>> THEN <<>>
  ELSE LET x == e.t1[Mask(s[1] + at.n1)]
       IN <<Through(e, at, s[1])>> \o DecryptEntered(e, Tail(s), Turned(at, (x % Turn) + 1))

\* It leaves the reflector where the text had entered it.
RECURSIVE DecryptFrom(_, _, _)
DecryptFrom(e, s, at) ==
  IF s = <<>> THEN <<>>
  ELSE LET x == Reflected(e, at, e.t1[Mask(s[1] + at.n1)])
       IN <<Mask(e.t2[x] - at.n1)>> \o DecryptFrom(e, Tail(s), Turned(at, (x % Turn) + 1))
enigma_decrypt(e, s) == DecryptFrom(e, s, Start(e, Len(s)))

-----------------------------------------------------------------------------
(* enigma2_encrypt, enigma2_decrypt *)

b_revers(s) == [i \in DOMAIN s |-> s[Len(s) + 1 - i]]

\* Every character is added (xor) to the next one, from the first.
RECURSIVE Chained(_, _)
Chained(s, i) ==
  IF i >= Len(s) THEN s ELSE Chained([s EXCEPT ![i + 1] = @ ^^ s[i]], i + 1)

enigma_rev(e, s) == Chained(b_revers(enigma_encrypt(e, s)), 1)

rev_enigma(e, s) ==
  LET r == b_revers(s)
  IN enigma_decrypt(e, [i \in DOMAIN r |-> IF i < Len(r) THEN r[i] ^^ r[i + 1] ELSE r[i]])

\* The first l characters change places with those behind the rotor.
str_rotor(s, rotor) ==
  LET l == IF rotor < Len(s) - rotor THEN rotor ELSE Len(s) - rotor
  IN [i \in DOMAIN s |->
        IF i <= l THEN s[i + rotor]
        ELSE IF i > rotor /\ i <= rotor + l THEN s[i - rotor] ELSE s[i]]

enigma2_encrypt(e, s) ==
  IF s = <<>> THEN s ELSE enigma(e.r, str_rotor(enigma_rev(e.t, s), e.crc % Len(s)))
enigma2_decrypt(e, s) ==
  IF s = <<>> THEN s ELSE rev_enigma(e.t, str_rotor(enigma(e.r, s), e.crc % Len(s)))

\* The second machine's key is the first one's, reversed and encrypted with it.
\* The crc values are inputs.
enigma2_init(key, crc, crc2, crc3) ==
  LET t == enigma_init(key, crc)
      rk == SubSeq(key, 1, IF Len(key) > ROTORSZ THEN ROTORSZ ELSE Len(key))
  IN [t |-> t, r |-> enigma_init(enigma_encrypt(t, b_revers(rk)), crc2), crc |-> crc3]

-----------------------------------------------------------------------------
(* Any key, then any text *)

NoMachine == [crc |-> 0]

EnigmaInit == ep = NoMachine /\ text = <<>>

Texts == UNION {[1 .. n -> KeyChars] : n \in 1 .. MaxText}

GiveKey ==
  /\ ep = NoMachine
  /\ \E key \in Texts, crc, crc2 \in KeySeeds, crc3 \in 1 .. MaxText :
       ep' = enigma2_init(key, crc, crc2, crc3)
  /\ UNCHANGED text

GiveText ==
  /\ ep # NoMachine /\ text = <<>>
  /\ text' \in Texts
  /\ UNCHANGED ep

EnigmaNext == GiveKey \/ GiveText

-----------------------------------------------------------------------------
(* Properties. *)

\* For every key the rotor has each point once, t2 undoes it, and the reflector
\* joins all points in pairs, though 0 stands for "not joined" while it is built.
RotorsWhole ==
  ep # NoMachine =>
    \A e \in {ep.t, ep.r}, p \in Points :
      /\ e.t2[e.t1[p]] = p /\ e.t1[e.t2[p]] = p
      /\ e.t3[p] # p /\ e.t3[e.t3[p]] = p

\* What was encrypted is decrypted, by each of the four pairs of functions, though
\* the rotor turns by amounts that the text decides.
Deciphers ==
  text # <<>> =>
    /\ enigma(ep.t, enigma(ep.t, text)) = text
    /\ enigma_decrypt(ep.t, enigma_encrypt(ep.t, text)) = text
    /\ rev_enigma(ep.t, enigma_rev(ep.t, text)) = text
    /\ enigma2_decrypt(ep, enigma2_encrypt(ep, text)) = text

\* What one side encrypts the other side decrypts, with rotors that are permutations.
CipherRight == RotorsWhole /\ Deciphers
=============================================================================
