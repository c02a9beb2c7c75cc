----------------------------- MODULE MCReaders -----------------------------
(* Clients of the Gateway that read: the events of a Task, and the pages   *)
(* of pending reviews.  world says which, and in which case:               *)
(*                                                                         *)
(* "resume": a client over broken connections and a restart of the server; *)
(* "legacy": two clients of a Task stored before there were events;        *)
(* "walk": a walk page by page, with a Task that has no route and an owner *)
(* that is flaky; "upgrade": the client may hold a cursor of an older      *)
(* release.                                                                *)
EXTENDS TaskEventStream, ReviewListing, TLC

CONSTANTS c1, c2

VARIABLES world

mcvars == <<streamVars, listingVars, world>>

OwnerOf == [i \in Ids |-> (i + 1) \div 2]

ASSUME EventsAssumption == StreamAssumption
ASSUME PagesAssumption == ListingAssumption

(* One client, or two of them that meet a short history.                   *)
ResumeNext == StreamNext /\ sub'[c2] = Closed
OldNext == StreamNext /\ Len(events') <= 3 /\ deltas' = 0 /\ breaks' <= 1

(* Four reviews page by page; or three, of two times, in pages of two.     *)
WalkNext ==
  /\ ListingNext /\ cursor'.version # "v2" /\ page'.limit # 2
  /\ \A r \in reviews' : r.order = 1
UpgradeNext == ListingNext /\ page'.limit # 1 /\ lastSeq' < MaxSeq

MCInit == /\ world \in {"resume", "legacy", "walk", "upgrade"}
          /\ StreamInit /\ (world = "legacy" <=> events = <<>>)
          /\ ListingInit
MCNext == /\ \/ world = "resume" /\ ResumeNext /\ UNCHANGED listingVars
             \/ world = "legacy" /\ OldNext /\ UNCHANGED listingVars
             \/ world = "walk" /\ WalkNext /\ UNCHANGED streamVars
             \/ world = "upgrade" /\ UpgradeNext /\ UNCHANGED streamVars
          /\ UNCHANGED world
MCSpec == MCInit /\ [][MCNext]_mcvars

Symmetry == Permutations({c1, c2})
=============================================================================
