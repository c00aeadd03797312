--------------------------- MODULE MCOpSubmission ---------------------------
(* OpSubmission with the operations of one client c in two rounds.         *)
EXTENDS OpSubmission

CONSTANTS c, m

MCOp ==
    {JoinOp(c, 0), StartOp(c, 0, m), MessageOp(c, 0, m, m),
     EncryptedOp(c, 0, <<m>>, 0), EncryptedOp(c, 0, <<m>>, 1),
     ScrambledOp(c, 0, <<m>>), DecryptedOp(c, 0, <<m>>, 0),
     DecryptedOp(c, 0, <<m>>, 1), RevealOp(c, 0, m), AbortOp(0),
     JoinOp(c, 1), AbortOp(1)}
=============================================================================
