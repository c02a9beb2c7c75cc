----------------------------- MODULE MCEndings -----------------------------
(* What a caller has begun comes to an end: a stream of events, a walk     *)
(* through the pending reviews, a spawn, a call of the model.  world says  *)
(* which of them a behaviour is about; the others stand still.             *)
EXTENDS Naturals, TLC

CONSTANTS Nothing

VARIABLES
  task, events, sub, proxy, got, told, deltas, breaks,
  reviews, lastSeq, page, cursor, seen, twice, due,
  limits, tasks, asked, calls, net, answers, restarts,
  attempt, phase, block, yielded_delta, yielded_effect, given, server,
  world

streamVars == <<task, events, sub, proxy, got, told, deltas, breaks>>
listingVars == <<reviews, lastSeq, page, cursor, seen, twice, due>>
treeVars == <<limits, tasks, asked, calls, net, answers, restarts>>
codexVars == <<attempt, phase, block, yielded_delta, yielded_effect, given, server>>
mcvars == <<streamVars, listingVars, treeVars, codexVars, world>>

(* A client that need not poll.                                            *)
Stream == INSTANCE TaskEventStream
            WITH Clients <- {"c1"}, Batch <- 2, MaxPending <- 1, TailPoll <- FALSE,
                 MaxRuns <- 2, MaxEvents <- 4, MaxDeltas <- 2, MaxBreaks <- 1

(* A walk while reviews keep coming in, with an owner that is flaky.       *)
Listing == INSTANCE ReviewListing
             WITH Tasks <- 1..3, Ids <- 1..6, Owner <- [i \in 1..6 |-> (i + 1) \div 2],
                  Routed <- 1..3, Flaky <- {1}, Times <- {1}, Limits <- {1}, MaxSeq <- 3

(* Two Gateways that spawn at each other's, under the same root.           *)
Asks(i, f, t) == [id |-> i, from |-> f, to |-> t]
Nodes == ("p1" :> "A") @@ ("q" :> "B") @@ ("r" :> "C")
Homes == [i \in {"a1", "a2", "a3", "b2", "b3", "c2", "c3"} |->
            IF i \in {"a1", "a2", "a3"} THEN "A" ELSE IF i \in {"b2", "b3"} THEN "B" ELSE "C"]
Cross == {Asks("a2", "a1", "B"), Asks("a3", "a1", "C"), Asks("b2", "a2", "C"),
          Asks("c3", "b2", "Here"), Asks("c2", "a3", "B"), Asks("b3", "c2", "Here")}
Tree == INSTANCE DelegationTree
          WITH Procs <- {"p1", "q", "r"}, NodeOf <- Nodes, Ids <- DOMAIN Homes, Home <- Homes,
               Wanted <- Cross, Idempotent <- {}, Limits <- {[depth |-> 9, tasks |-> 9]},
               Legacy <- {"a1"}, MaxVisited <- 64, MaxRestarts <- 0, Here <- "Here",
               None <- Nothing

Codex == INSTANCE CodexStream WITH Parts <- 2, Pieces <- 2, MaxRetries <- 2

ASSUME EndingsAssumption ==
  Stream!StreamAssumption /\ Listing!ListingAssumption /\ Codex!CodexAssumption

MCInit == /\ world \in {"stream", "listing", "tree", "codex"}
          /\ Stream!StreamInit /\ events # <<>> /\ Listing!ListingInit /\ Tree!Init /\ Codex!CodexInit
MCNext ==
  /\ \/ /\ world = "stream" /\ Stream!StreamNext
        /\ UNCHANGED <<listingVars, treeVars, codexVars>>
     \/ /\ world = "listing" /\ Listing!ListingNext /\ cursor'.version # "v2"
        /\ UNCHANGED <<streamVars, treeVars, codexVars>>
     \/ /\ world = "tree" /\ Tree!Next
        /\ UNCHANGED <<streamVars, listingVars, codexVars>>
     \/ /\ world = "codex" /\ Codex!CodexNext
        /\ UNCHANGED <<streamVars, listingVars, treeVars>>
  /\ UNCHANGED world

(* A connection that is open is served, and one that broke is made again.  *)
(* The client of a listing keeps asking, and a page whose owners all       *)
(* answered is not lost for ever: the network's part, not the code's.  A   *)
(* task of the event loop that can run does run, a lock serves its waiters *)
(* in their order, an HTTP call has a timeout, and every body of a         *)
(* response ends or its connection breaks.                                 *)
Fairness ==
  /\ WF_streamVars(world = "stream" /\ Stream!Stream("c1"))
  /\ WF_streamVars(world = "stream" /\ Stream!Reopen("c1"))
  /\ WF_listingVars(world = "listing" /\ Listing!List(1))
  /\ WF_listingVars(world = "listing" /\ Listing!Reply)
  /\ SF_listingVars(world = "listing" /\ Listing!ScanBatch({}))
  /\ SF_listingVars(world = "listing" /\ Listing!Reply /\ ~page.blocked)
  /\ \A p \in {"p1", "q", "r"} : WF_treeVars(world = "tree" /\ Tree!CallGoesOn(p))
  /\ \A i \in {"a2", "a3", "b2", "b3", "c2", "c3"} :
       SF_treeVars(world = "tree" /\ \E p \in {"p1", "q", "r"} : Homes[i] = Nodes[p] /\ Tree!Enter(p, i))
  /\ WF_codexVars(world = "codex" /\ Codex!Connect)
  /\ WF_codexVars(world = "codex" /\ (Codex!EndOfBody \/ Codex!Break))
  /\ WF_codexVars(world = "codex" /\ Codex!SendAgain)

MCSpec == MCInit /\ [][MCNext]_mcvars /\ Fairness

\* A client that follows a run hears of its end (TaskEventStream).
StreamEnds == world = "stream" => Stream!StreamEnds

\* A walk ends although new reviews keep coming (ReviewListing).
WalkEnds == world = "listing" => Listing!WalkEnds

\* No two Gateways wait for each other's locks for ever (DelegationTree).
SpawnEnds == world = "tree" => Tree!SpawnEnds

\* A call of the model ends, whatever the network does (CodexStream).
CallEnds == world = "codex" => Codex!CallEnds
=============================================================================
