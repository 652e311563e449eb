----------------------------- MODULE Visualiser -----------------------------
(***************************************************************************)
(* viz/main.cpp: worker threads whose allocations push events, and the      *)
(* window's thread, which once per frame looks at the ring and, if its      *)
(* count has changed, takes a new tail of it for the event feed.  Closing   *)
(* the window stops the workers and joins them.                             *)
(*                                                                         *)
(* The ring is EventRing.  `program' says who uses it: "viewer" is          *)
(* this program, "any" one whose threads push and read as they like.        *)
(* What the other two windows show is in Statistics and PoolWalk.           *)
(***************************************************************************)
EXTENDS EventRing

CONSTANTS Workers,
          Window,      \* the reader that draws (main's thread)
          FeedLength,  \* lines of the feed (200)
          HoldMax,     \* kHoldMax: blocks a worker holds before it frees one
          Burst,       \* blocks of a burst (300)
          MaxBatches   \* bound: batches of one worker

ASSUME VisualiserAssumption ==
  /\ Window \in Readers /\ FeedLength \in MaxCounts
  /\ HoldMax \in Nat /\ Burst \in Nat /\ MaxBatches \in Nat

VARIABLES program,
          worker,      \* per worker: where it is, what it holds, what is left of a burst
          stop,        \* the flag `stop'
          window,      \* where the window's thread is
          ring_count, last_count   \* its variables in draw_event_feed; feed is out[Window]

ringVars == vars
uiVars   == <<window, ring_count, last_count>>
visVars  == <<ringVars, uiVars, program, worker, stop>>

Starting == [at |-> "top", held |-> 0, left |-> 0, batch |-> 0]

VisInit == /\ Init
           /\ program \in {"viewer", "any"}
           /\ worker = [w \in Workers |-> Starting]
           /\ stop = FALSE
           /\ window = "frame" /\ ring_count = 0 /\ last_count = 0
------------------------------------------------------------------------------
(* worker_loop: the flag is read once per batch.  A batch is a burst or one   *)
(* allocation, ...                                                          *)
Goes(w, at) == worker' = [worker EXCEPT ![w].at = at]

Top(w) == /\ worker[w].at = "top"
          /\ \/ stop /\ Goes(w, "drain")
             \/ /\ ~stop /\ worker[w].batch < MaxBatches
                /\ \E next \in {"alloc", "burst"}, chunk \in {0, 1} :
                     worker' = [worker EXCEPT ![w].at = next, ![w].batch = @ + 1,
                                              ![w].left = IF next = "burst" THEN 2 * Burst + chunk ELSE 0]
          /\ UNCHANGED <<ringVars, stop, uiVars>>

(* ... each allocation and each deallocation of the burst one event, and one  *)
(* more if the pool runs empty and a chunk is acquired, ...                 *)
BurstPush(w) == /\ worker[w].at = "burst" /\ worker[w].left > 0
                /\ Push
                /\ worker' = [worker EXCEPT ![w].left = @ - 1]
                /\ UNCHANGED <<stop, uiVars>>

BurstEnd(w) == /\ worker[w].at = "burst" /\ worker[w].left = 0
               /\ Goes(w, "top")
               /\ UNCHANGED <<ringVars, stop, uiVars>>

(* ... the other one held until HoldMax more have come.  A full arena gives   *)
(* nullptr: no event and nothing held.                                      *)
Alloc(w) == /\ worker[w].at = "alloc"
            /\ \/ /\ Push
                  /\ worker' = [worker EXCEPT ![w].held = @ + 1,
                                              ![w].at = IF worker[w].held = HoldMax THEN "free" ELSE "top"]
               \/ UNCHANGED ringVars /\ Goes(w, "top")
            /\ UNCHANGED <<stop, uiVars>>

Free(w) == /\ worker[w].at = "free"
           /\ Push
           /\ worker' = [worker EXCEPT ![w].held = @ - 1, ![w].at = "top"]
           /\ UNCHANGED <<stop, uiVars>>

(* After the loop the worker gives back what it holds and exits. *)
Drain(w) == /\ worker[w].at = "drain"
            /\ IF worker[w].held > 0
               THEN Push /\ worker' = [worker EXCEPT ![w].held = @ - 1]
               ELSE UNCHANGED ringVars /\ Goes(w, "gone")
            /\ UNCHANGED <<stop, uiVars>>

Worker(w) == Top(w) \/ BurstPush(w) \/ BurstEnd(w) \/ Alloc(w) \/ Free(w) \/ Drain(w)
------------------------------------------------------------------------------
(* draw_event_feed: count() is taken; if it is the last one, the frame shows  *)
(* the feed it has, ...                                                     *)
LookAtRing == /\ window = "frame" /\ count # last_count
              /\ ring_count' = count
              /\ window' = "begin"
              /\ UNCHANGED <<ringVars, worker, stop, last_count>>

(* ... otherwise snapshot_tail() makes a new one, in its two passes.          *)
FeedBegin == /\ window = "begin"
             /\ TailBegin(Window, FeedLength)
             /\ window' = "copy"
             /\ UNCHANGED <<worker, stop, ring_count, last_count>>

(* Mutated form: the count is taken again after the copy. *)
FeedCopyRecounted == /\ window = "copy"
                     /\ TailCopy(Window)
                     /\ last_count' = count
                     /\ window' = "frame"
                     /\ UNCHANGED <<worker, stop, ring_count>>

FeedCopy == /\ window = "copy"
            /\ TailCopy(Window)
            /\ last_count' = ring_count
            /\ window' = "frame"
            /\ UNCHANGED <<worker, stop, ring_count>>

(* Mutated form: main joins before it sets the flag. *)
CloseUnstopped == /\ window = "frame"
                  /\ window' = "join"
                  /\ UNCHANGED <<ringVars, worker, stop, ring_count, last_count>>

(* The window is closed: stop, then join. *)
Close == /\ window = "frame"
         /\ stop' = TRUE
         /\ window' = "join"
         /\ UNCHANGED <<ringVars, worker, ring_count, last_count>>

Join == /\ window = "join"
        /\ \A w \in Workers : worker[w].at = "gone"
        /\ window' = "closed"
        /\ UNCHANGED <<ringVars, worker, stop, ring_count, last_count>>

Draw == LookAtRing \/ FeedBegin \/ FeedCopy \/ Join

Viewer == program = "viewer" /\ UNCHANGED program
VisNext == \/ Viewer /\ (Draw \/ Close \/ \E w \in Workers : Worker(w))
           \/ program = "any" /\ Next /\ UNCHANGED <<program, uiVars, worker, stop>>

VisSpec == /\ VisInit /\ [][VisNext]_visVars
           /\ WF_visVars(Viewer /\ Draw)
           /\ \A w \in Workers : WF_visVars(Viewer /\ Worker(w))
------------------------------------------------------------------------------
Latest(k) == [i \in 1 .. k |-> pushed - k + i]

(* The feed misses nothing: whenever the window's thread finds the count      *)
(* unchanged and so keeps the feed it has, that feed is the latest events,    *)
(* also when events came between its look at the count and the copy.  This    *)
(* is so until the ring is full: from then on the count no longer changes.    *)
FeedCurrentUntilFull ==
  program = "viewer" /\ window = "frame" /\ last_count = count /\ count < kCapacity =>
    out[Window] = Latest(Least(FeedLength, count))

(* viz/main.cpp says of the feed: the most recent events from the ring, newest *)
(* at the bottom; so a feed that is kept should be the latest.               *)
FeedCurrent ==
  program = "viewer" /\ window = "frame" /\ last_count = count =>
    out[Window] = Latest(Least(FeedLength, count))

(* Closing the window ends the program: every worker comes to see the flag,   *)
(* gives back what it holds and exits.                                      *)
ShutdownEnds == window = "join" ~> window = "closed"
==============================================================================
