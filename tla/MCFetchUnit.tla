---------------------------- MODULE MCFetchUnit ----------------------------
(* Short bundles, a branch queue of a few entries and a stack of two return *)
(* addresses.                                                               *)
EXTENDS FetchUnit

(* Directions with the branches and the stops that cut a bundle short, and  *)
(* calls with returns and with stops.                                       *)
MCPrograms == {{"cond", "jump"}, {"cond", "serial"}, {"call", "return"},
               {"call", "except"}}

(* What the unit can still read: the log entries of the branches in flight. *)
LiveTags  == {window[i].tag : i \in {j \in DOMAIN window : IsBranch(window[j].insn)}}
LiveState == <<fetch_active, bhr, ras, tos, fetch2, bq,
               [s \in LiveTags |-> log[s]], ras_tail, window, dropped, base, program>>
=============================================================================
