---------------------------- MODULE BuildRequests ----------------------------
(***************************************************************************)
(* What a BuildRequest promises the people who watch its page: the states  *)
(* it goes through, and when there is an image to download.  A build       *)
(* passes from preparing to building to finalizing; it is listed as        *)
(* succeeded only with an image on offer; and the offer of a finished      *)
(* build is withdrawn only by deleting the build or by baking it again.    *)
(*                                                                         *)
(* How workers, messages, files and storage bring this about is the        *)
(* business of BuildLifecycle, which implements this module when the fleet *)
(* command leaves builds alone that are being baked.                       *)
(***************************************************************************)
CONSTANT Builds

VARIABLES
  status,   \* BuildRequest.status, "absent" before and "deleted" after it exists
  offered,  \* builds whose image can be downloaded and matches its checksum
  leaving   \* builds an operator is deleting

vars == <<status, offered, leaving>>

Exists(b) == status[b] \notin {"absent", "deleted"}

Init == /\ status = [b \in Builds |-> "absent"]
        /\ offered = {}
        /\ leaving = {}

Move(b, from, to) == /\ status[b] \in from
                     /\ status' = [status EXCEPT ![b] = to]

Submit(b) == Move(b, {"absent"}, "queued") /\ UNCHANGED <<offered, leaving>>

\* The fleet command's --requeue.
Requeue(b) == /\ Exists(b)
              /\ status' = [status EXCEPT ![b] = "queued"]
              /\ UNCHANGED <<offered, leaving>>

\* A worker picks the build up; after a crash, or a requeue, once more.
Start(b) == /\ Exists(b)
            /\ status' = [status EXCEPT ![b] = "preparing"]
            /\ UNCHANGED <<offered, leaving>>

Advance(b) == /\ \/ Move(b, {"preparing"}, "building")
                 \/ Move(b, {"building"}, "finalizing")
              /\ UNCHANGED <<offered, leaving>>

\* Publishing replaces the previous image, first taking it away.
Withdraw(b) == /\ status[b] = "finalizing"
               /\ offered' = offered \ {b}
               /\ UNCHANGED <<status, leaving>>

Offer(b) == /\ status[b] = "finalizing"
            /\ offered' = offered \cup {b}
            /\ UNCHANGED <<status, leaving>>

Succeed(b) == /\ b \in offered \cup leaving
              /\ Move(b, {"finalizing"}, "succeeded")
              /\ UNCHANGED <<offered, leaving>>

Fail(b) == /\ Move(b, {"preparing", "building", "finalizing"}, "failed")
           /\ UNCHANGED <<offered, leaving>>

\* A deletion takes the image first and the build next.
Leave(b) == /\ Exists(b)
            /\ leaving' = leaving \cup {b}
            /\ offered' \in {offered, offered \ {b}}
            /\ UNCHANGED status

Delete(b) == /\ b \in leaving
             /\ leaving' = leaving \ {b}
             /\ offered' = offered \ {b}
             /\ status' = [status EXCEPT ![b] = "deleted"]

Next == \E b \in Builds :
  \/ Submit(b) \/ Requeue(b) \/ Start(b) \/ Advance(b)
  \/ Withdraw(b) \/ Offer(b) \/ Succeed(b) \/ Fail(b)
  \/ Leave(b) \/ Delete(b)

Spec == Init /\ [][Next]_vars

=============================================================================
