----------------------------- MODULE MCVolumes -----------------------------
(* Integers of eight bits, so that 128 overflows; two packets of up to two   *)
(* fields, the second in the buffer of the first.                            *)
EXTENDS Volumes

\* "38", "138" and "3"; "5", "38", "128" and no digits
MCTags == {<<51, 56>>, <<49, 51, 56>>, <<51>>}
MCValues == {<<53>>, <<51, 56>>, <<49, 50, 56>>, <<>>}
MCFactors == {1, -3}
=============================================================================
