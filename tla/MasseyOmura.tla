----------------------------- MODULE MasseyOmura -----------------------------
(***************************************************************************)
(* The arithmetic behind the commutative cipher (masseyomura/): keys,      *)
(* padding, and encryption by exponentiation modulo a prime.  A message    *)
(* gets layers of several users and loses them again in any order, as it   *)
(* does in the encrypt, scramble, decrypt and reveal phases.               *)
(*                                                                         *)
(* Bytes have W bits instead of 8 so that the primes stay small.           *)
(***************************************************************************)
EXTENDS Integers, Sequences, FiniteSets, FiniteSetsExt, SequencesExt

CONSTANTS Nil,      \* what a panicking function returns
          W,        \* bits per byte
          Size,     \* ClientConfig.MessageSize, in bytes
          Prime,    \* the primes GenSysKey may find
          Lengths,  \* the lengths of the users' messages
          User      \* the users that put a layer on the message

ASSUME MasseyOmuraAssumption ==
    /\ W \in Nat \ {0}
    /\ Size \in Nat
    /\ Prime \subseteq Nat
    /\ Lengths \subseteq 0 .. Size

VARIABLES p,     \* SystemKey.P
          keys,  \* keys[u]: the private key of user u
          msg,   \* the plaintext
          val,   \* the message as it is now, a number modulo p
          on     \* history: the users whose layer is on

vars == <<p, keys, msg, val, on>>

-----------------------------------------------------------------------------
(* math/big *)

Base == 2^W
Byte == 0 .. Base - 1

\* The least k such that n < b^k: the number of digits of n.
Digits(n, b) == CHOOSE k \in 0 .. n : n < b^k /\ (k > 0 => b^(k - 1) <= n)
BitLen(n) == Digits(n, 2)

SetBytes(s) == FoldLeft(LAMBDA n, byte : Base * n + byte, 0, s)

\* Bytes has no leading zeros.
Bytes(n) ==
    LET k == Digits(n, Base) IN
    [i \in 1 .. k |-> (n \div Base^(k - i)) % Base]

Exp(b, e, m) ==
    LET power[k \in 0 .. e] ==
            IF k = 0 THEN 1 % m
            ELSE LET half == power[k \div 2]
                 IN (half * half * (IF k % 2 = 1 THEN b ELSE 1)) % m
    IN power[e]

Divides(d, n) == n % d = 0
GCD(a, b) == Max({d \in 1 .. a : Divides(d, a) /\ Divides(d, b)})

-----------------------------------------------------------------------------
(* Keys *)

BitsMaxSize(bytes) == W * (bytes + 1) + 1
\* Mutant: no room is left for the byte that separates padding and message.
bytesMaxSizeTooBig(bits) == (bits - 1) \div W
bytesMaxSize(bits) == (bits - 1) \div W - 1

\* ProbablyPrime is taken to be right.
IsPrime(n) == n > 1 /\ \A d \in 2 .. n - 1 : ~Divides(d, n)

VerifySysKey(n, bits) == BitLen(n) = bits /\ IsPrime(n)
GenSysKey(bits) == {n \in Prime : VerifySysKey(n, bits)}

\* Mutant: any exponent is taken.
GenUserKeyAnyExponent(n) ==
    {[E |-> e, D |-> d] : e \in 1 .. n - 2, d \in {n - 2}}
\* All the outcomes of GenUserKey: E is prime to p - 1 and D its inverse.
GenUserKey(n) ==
    LET exponents == {e \in 1 .. n - 2 : GCD(e, n - 1) = 1}
    IN {[E |-> e,
         D |-> CHOOSE d \in exponents : (e * d) % (n - 1) = 1 % (n - 1)] :
            e \in exponents}

-----------------------------------------------------------------------------
(* Messages *)

\* Mutant: the zero that ends the padding is left out.
padNoZero(s, targetlen) ==
    [i \in 1 .. targetlen - Len(s) |-> 1] \o s
pad(s, targetlen) ==
    [i \in 1 .. targetlen - 1 - Len(s) |-> 1] \o <<0>> \o s

unPad(s) ==
    IF \E i \in DOMAIN s : s[i] = 0
    THEN SubSeq(s, 1 + Min({i \in DOMAIN s : s[i] = 0}), Len(s))
    ELSE Nil

PrepareMsg(s, plen) ==
    IF Len(s) > bytesMaxSize(plen) THEN Nil
    ELSE SetBytes(pad(s, bytesMaxSize(plen) + 1))
ExtractMsg(n) == unPad(Bytes(n))

\* The header of one byte stands for the 16 that messageHeader puts in front
\* of every message: it starts with 13, which is neither 0 nor 1.
Header == <<Base - 1>>
messageWithHeader(s) == Header \o s

-----------------------------------------------------------------------------
(* Layers on a message *)

Init ==
    /\ p \in GenSysKey(BitsMaxSize(Len(Header) + Size))
    /\ keys \in [User -> GenUserKey(p)]
    /\ msg \in {messageWithHeader(s) : s \in UNION {[1 .. n -> Byte] : n \in Lengths}}
    /\ val = PrepareMsg(msg, BitLen(p))
    /\ on = {}

Encrypt(u) ==
    /\ u \notin on
    /\ val' = Exp(val, keys[u].E, p)
    /\ on' = on \cup {u}
    /\ UNCHANGED <<p, keys, msg>>

Decrypt(u) ==
    /\ u \in on
    /\ val' = Exp(val, keys[u].D, p)
    /\ on' = on \ {u}
    /\ UNCHANGED <<p, keys, msg>>

Next == \E u \in User : Encrypt(u) \/ Decrypt(u)

Spec == Init /\ [][Next]_vars

-----------------------------------------------------------------------------

\* Every message is a number that is not zero and below p: no layer makes a
\* message look missing (Msg.Nil, crypto.go:44) or loses bits.
MessageInRange == val \in 1 .. p - 1

\* A message depends on which layers are on it, not on the order in which
\* they went on and other layers came off: what Cipher assumes of Encrypt and
\* Decrypt, and what lets everybody decrypt in any order.
LayersCommute ==
    val = FoldSet(LAMBDA u, v : Exp(v, keys[u].E, p), PrepareMsg(msg, BitLen(p)), on)

\* "ExtractMsg reverses PrepareMsg" (crypto.go:109), also after layers have
\* come and gone.
ExtractReversesPrepare == on = {} => ExtractMsg(val) = msg
=============================================================================
