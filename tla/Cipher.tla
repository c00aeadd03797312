------------------------------- MODULE Cipher -------------------------------
(***************************************************************************)
(* The commutative cipher as the protocol uses it (anonbcast/crypto.go).   *)
(*                                                                         *)
(* A ciphertext is the message it hides and, for each key, how many times  *)
(* the key was applied to it.  Applying E adds one and applying D takes    *)
(* one away, in any order; that the arithmetic of masseyomura does this is *)
(* checked in MasseyOmura.  Keys are told apart by owner, use and round:   *)
(* GenKey draws each at random.  A crypto object is the message size its   *)
(* prime was generated for.                                                *)
(***************************************************************************)
EXTENDS Integers, Sequences, SequencesExt

GenKey(owner, use, round) == [owner |-> owner, use |-> use, round |-> round]

\* A plaintext with the random header that makes it unique; body is FALSE for
\* the empty message, which is sent when the user has nothing to say.
messageWithHeader(author, round, body) ==
    [author |-> author, round |-> round, body |-> body]

PrepareMsg(plain) == [plain |-> plain, layers |-> << >>]

Layer(m, key) == IF key \in DOMAIN m.layers THEN m.layers[key] ELSE 0

\* The ciphertext with n more layers of key.
WithLayers(m, key, n) ==
    LET count == Layer(m, key) + n
        keys  == IF count = 0 THEN DOMAIN m.layers \ {key}
                 ELSE DOMAIN m.layers \cup {key}
    IN [m EXCEPT !.layers = [k \in keys |-> IF k = key THEN count ELSE @[k]]]

Encrypt(key, m) == WithLayers(m, key, 1)
Decrypt(key, m) == WithLayers(m, key, -1)

\* What ExtractMsg returns has a valid header only if no layer is left.
IsPlain(m) == DOMAIN m.layers = {}

Hash(key) == [hashOf |-> key]
HashEquals(key, hash) == hash = Hash(key)

newMasseyOmuraCrypto(messageSize) == [size |-> messageSize]
Verify(crypto, messageSize) == crypto.size = messageSize
=============================================================================
