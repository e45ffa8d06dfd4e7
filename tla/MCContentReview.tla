---------------------------- MODULE MCContentReview ----------------------------
(***************************************************************************)
(* Small instances of ContentReview for TLC: two sessions of the Command   *)
(* Center, the Telegram console, and the command line.                     *)
(***************************************************************************)
EXTENDS ContentReview

CONSTANTS h1, h2, tg, cli, x1, l1

\* The command line archives and inspects, and may name both alike: reviews it
\* refuses itself.
Directs ==
  {[id |-> <<"direct">>, input |-> Archive], [id |-> <<"direct">>, input |-> Inspect]}

=============================================================================
