--------------------------- MODULE MCConsole ---------------------------
(* The instance of Console checked: a log of four that keeps two, so that  *)
(* the console's own lines and two posts fill it, trim it and then append  *)
(* into the room an array has left while a Snapshot holds that array; and  *)
(* channels of one so that each of them fills.                             *)
EXTENDS Console

MCEntry == {Console} \cup 1 .. MaxPosts
=============================================================================
