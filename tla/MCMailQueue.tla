----------------------------- MODULE MCMailQueue -----------------------------
(* Instances of MailQueue for TLC: processes and senders are interchangeable. *)
EXTENDS MailQueue, TLC

Perms == Permutations(Procs) \cup Permutations(Senders)
==============================================================================
