---------------------------- MODULE RequestLimits ----------------------------
(***************************************************************************)
(* The request limits of one endpoint: AppThrottlerGuard asks               *)
(* ThrottlerStorageRedisService for the counter of the client's address,    *)
(* then for the counter of the account the body names.  A counter is two    *)
(* Redis keys with a time to live, changed by one Lua script; when Redis    *)
(* fails, the memory of the server instance answers.                        *)
(*                                                                          *)
(* Tick is a millisecond.  Redis removes a key after its time to live, so   *)
(* that a script may still meet it with 0 left.                             *)
(***************************************************************************)
EXTENDS Units

CONSTANTS
  Clients,   \* client addresses
  Account,   \* the account that requests name
  TTL        \* length of the window, and of a block, in ticks

VARIABLES
  counter,   \* counter[<<name, tracker>>]: the two keys of the counter
  asking,    \* asking[c]: the request of client c that the guard is looking at
  recent,    \* history: recent[n]: accepted by the account's limit n ticks ago
  refusals   \* history: refusals in a row; beyond the first, only of requests
             \* sent after the announced wait

vars == <<counter, asking, recent, refusals>>

Names == {"default", "account"}
Limit(name) == IF name = "default" THEN 3 ELSE 2
Ages == 0 .. TTL

\* hits and its time left, time left of the block; -1: there is no such key.
NoCounter == [hits |-> 0, left |-> -1, block |-> -1]

\* The counter a limit is about.
Tracker_Client(name, c) == c
Tracker(name, c) == IF name = "default" THEN c ELSE Account
Counter(name, c) == <<name, Tracker(name, c)>>

Init ==
  /\ counter = [k \in Names \X (Clients \cup {Account}) |-> NoCounter]
  /\ asking = [c \in Clients |-> "nothing"]
  /\ recent = [n \in Ages |-> 0]
  /\ refusals = 0

\* The time left of a key whose script restarts it when nothing is left.
Left_Seconds(counted) == IF counted.left <= 0 THEN TTL * 1000 ELSE counted.left
Left(counted) == IF counted.left <= 0 THEN TTL ELSE counted.left

\* The Lua script: hits count during a block as well; more than Limit + 1 hits
\* are no different from Limit + 1.
Counted(name, counted) ==
  LET hits == (IF counted.left < 0 THEN 0 ELSE counted.hits) + 1
      next == [counted EXCEPT !.hits = IF hits > Limit(name) THEN Limit(name) + 1 ELSE hits,
                              !.left = Left(counted)]
  IN
  CASE counted.block > 0 -> next
    [] counted.block = 0 -> [hits |-> 1, left |-> TTL, block |-> -1]
    [] OTHER -> [next EXCEPT !.block = IF hits > Limit(name) THEN TTL ELSE -1]

\* A refusal announces the time left of the block (Retry-After).
IsRefused(counted) == counted.block >= 0

-----------------------------------------------------------------------------

\* A request that names the account, or none (`identified').
Request(c, identified) ==
  /\ asking[c] = "nothing"
  /\ asking' = [asking EXCEPT ![c] = IF identified THEN "both" ELSE "default"]
  /\ UNCHANGED <<counter, recent, refusals>>

\* The limit the guard looks at now, and what is left to ask when it accepts.
Asked(c) == IF asking[c] = "account" THEN "account" ELSE "default"
Accepted(c) == IF asking[c] = "both" THEN "account" ELSE "nothing"

\* The history of the account.
Record(before, after) ==
  IF IsRefused(after)
  THEN /\ refusals' = IF before.block > 0 THEN 1 ELSE refusals + 1
       /\ UNCHANGED recent
  ELSE /\ recent' = [recent EXCEPT ![0] = @ + 1]
       /\ refusals' = 0

\* increment, answered by Redis.
Increment(c) ==
  LET name == Asked(c)
      k == Counter(name, c)
      after == Counted(name, counter[k])
  IN
  /\ asking[c] # "nothing"
  /\ counter' = [counter EXCEPT ![k] = after]
  /\ asking' = [asking EXCEPT ![c] = IF IsRefused(after) THEN "nothing" ELSE Accepted(c)]
  /\ IF name = "account" THEN Record(counter[k], after) ELSE UNCHANGED <<recent, refusals>>

\* increment, when Redis fails: the instance's own memory accepts or refuses.
Fallback(c) ==
  /\ asking[c] # "nothing"
  /\ \E answer \in {"nothing", Accepted(c)} : asking' = [asking EXCEPT ![c] = answer]
  /\ UNCHANGED <<counter, recent, refusals>>

Less(left) == IF left < 0 THEN -1 ELSE left - 1
Tick ==
  /\ counter' = [k \in DOMAIN counter |->
       [hits |-> IF counter[k].left <= 0 THEN 0 ELSE counter[k].hits,
        left |-> Less(counter[k].left), block |-> Less(counter[k].block)]]
  /\ recent' = [n \in Ages |-> IF n = 0 THEN 0 ELSE recent[n - 1]]
  /\ UNCHANGED <<asking, refusals>>

Next ==
  \/ \E c \in Clients :
       \/ \E identified \in BOOLEAN : Request(c, identified)
       \/ Increment(c) \/ Fallback(c)
  \/ Tick

Spec == Init /\ [][Next]_vars
-----------------------------------------------------------------------------
(* Properties *)

\* However many addresses the requests about an account come from, Redis lets
\* at most two windows' worth of them pass in any interval of one window
\* ("prevents targeted brute-force").
RollingBound == Total(Ages, recent) <= 2 * Limit("account")

\* Clients that wait as long as they are told, together, are refused at most
\* once more.
PatientIsServed == refusals <= 2

\* "Too many requests. Please try again in N seconds": not so after requests
\* during the block, which fill the next window.
WaitedOutIsServed == refusals <= 1
=============================================================================
