----------------------------- MODULE MCCommands -----------------------------
(***************************************************************************)
(* Commands on every buffer of up to two prefixes, cut at every byte: for   *)
(* slices with every length a message may have and some that none has, for  *)
(* streams, which come in pieces, with a few short ones.                    *)
(***************************************************************************)
EXTENDS Commands

MessageLengths == {MessageLen[ty] : ty \in Types} \cup {0, 10, 11, 51}
ShortLengths == {10, 12, 19}

=============================================================================
