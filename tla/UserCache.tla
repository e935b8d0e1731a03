------------------------------ MODULE UserCache ------------------------------
(***************************************************************************)
(* The Redis copy of one user's row (UsersStore), which authenticates every *)
(* request.  A read that misses it takes the user's generation, reads the   *)
(* row and stores a copy unless the user was changed meanwhile: the         *)
(* generation must still be the same or, when there was none, no tombstone  *)
(* may be as young as the read.  A change commits first and invalidates     *)
(* afterwards, with a pipeline of four commands that Redis may interleave   *)
(* with those of other connections.                                         *)
(*                                                                          *)
(* Each action is one Redis command or script, or one SQL statement.  The   *)
(* content of the row is its version.  All servers read the same clock.     *)
(* Redis keeps these keys for a day or, for the copy, a minute; with        *)
(* maxmemory-policy volatile-lru it may drop any of them before (a restart  *)
(* drops them all: nothing is saved).                                       *)
(***************************************************************************)
EXTENDS Integers

CONSTANTS
  Readers,      \* calls of findById in progress
  Writers,      \* changes and invalidations in progress
  Null,
  MaxVersion,   \* bound: changes of the row
  MaxClock,     \* bound: the milliseconds told apart
  MaxGen        \* bound: invalidations counted

UserCacheAssumption ==
  /\ MaxVersion \in Nat /\ MaxClock \in Nat \ {0} /\ MaxGen \in Nat \ {0}
  /\ Null \notin Nat

VARIABLES
  db,         \* the version of the committed row
  clock,      \* Date.now()
  gen,        \* {user:id}:gen, 0 when there is none ('0' to the code)
  tombstone,  \* {user:id}:invalidated, 0 when there is none
  cache,      \* {user:id}:cache: the version of the copy, or Null
  reader,     \* reader[r]: a findById that missed the copy
  writer,     \* writer[w]: the time of its tombstone and the version it makes visible
  settled,    \* history: the latest version whose invalidation has ended
  mishaps     \* history: what befell the keys, of Mishaps

vars == <<db, clock, gen, tombstone, cache, reader, writer, settled, mishaps>>
keys == <<gen, tombstone, cache>>

Versions == 0..MaxVersion

\* overtaken: a tombstone replaced a younger one; evicted: Redis dropped the key.
Mishaps == {"overtaken", "evicted gen", "evicted tombstone"}
IdleReader == [pc |-> "idle", at |-> 0, gen |-> 0, got |-> 0]
IdleWriter == [pc |-> "idle", now |-> 0, version |-> 0]

Init ==
  /\ db = 0 /\ clock = 1
  /\ gen \in {0, 1} /\ tombstone = gen /\ cache \in {Null, 0}
  /\ reader = [r \in Readers |-> IdleReader]
  /\ writer = [w \in Writers |-> IdleWriter]
  /\ settled = 0 /\ mishaps = {}

-----------------------------------------------------------------------------
(* findById without skipCache *)

\* No copy, or the lookup fails: the row will be read, starting now.  (A copy
\* that is found is returned, which changes nothing.)
Miss(r) ==
  /\ reader[r].pc = "idle"
  /\ reader' = [reader EXCEPT ![r].pc = "gen", ![r].at = clock]
  /\ UNCHANGED <<db, clock, keys, writer, settled, mishaps>>

\* getUserGeneration; '0' also when Redis fails.  The time counts only then.
ReadGeneration(r) ==
  /\ reader[r].pc = "gen"
  /\ \E g \in {gen, 0} :
       reader' = [reader EXCEPT ![r].pc = "row", ![r].gen = g,
                                ![r].at = IF g = 0 THEN @ ELSE 0]
  /\ UNCHANGED <<db, clock, keys, writer, settled, mishaps>>

ReadRow(r) ==
  /\ reader[r].pc = "row"
  /\ reader' = [reader EXCEPT ![r].pc = "fill", ![r].got = db]
  /\ UNCHANGED <<db, clock, keys, writer, settled, mishaps>>

\* SAFE_SET_LUA: is the user unchanged since the read began?
Admits_AnyGeneration(r) ==
  IF reader[r].gen # 0 THEN TRUE ELSE tombstone < reader[r].at
Admits(r) ==
  IF reader[r].gen # 0 THEN gen = reader[r].gen ELSE tombstone < reader[r].at

\* safeSetUserCache, one script in Redis.
Fill(r) ==
  /\ reader[r].pc = "fill" /\ Admits(r)
  /\ cache' = reader[r].got
  /\ reader' = [reader EXCEPT ![r] = IdleReader]
  /\ UNCHANGED <<db, clock, gen, tombstone, writer, settled, mishaps>>

\* Refused by the script, too slow (10 s), or Redis fails.
Skip(r) ==
  /\ reader[r].pc = "fill"
  /\ reader' = [reader EXCEPT ![r] = IdleReader]
  /\ UNCHANGED <<db, clock, keys, writer, settled, mishaps>>

-----------------------------------------------------------------------------
(* Changes, and the invalidation that follows them *)

\* create, update or softDelete of UsersStore: the statement commits.
Change(w) ==
  /\ writer[w].pc = "idle" /\ db < MaxVersion
  /\ db' = db + 1
  /\ writer' = [writer EXCEPT ![w] = [pc |-> "stamp", now |-> 0, version |-> db + 1]]
  /\ UNCHANGED <<clock, keys, reader, settled, mishaps>>

\* RolesGuard reads the row itself (skipCache); when it contradicts the user
\* the request was authenticated as, an earlier version, it invalidates the copy.
GuardHeals(w) ==
  /\ writer[w].pc = "idle" /\ db > 0
  /\ writer' = [writer EXCEPT ![w] = [pc |-> "stamp", now |-> 0, version |-> db]]
  /\ UNCHANGED <<db, clock, keys, reader, settled, mishaps>>

\* invalidateUserCache: Date.now(), then the commands of the pipeline.
Stamp(w) ==
  /\ writer[w].pc = "stamp"
  /\ writer' = [writer EXCEPT ![w].pc = "incr", ![w].now = clock]
  /\ UNCHANGED <<db, clock, keys, reader, settled, mishaps>>

Increment(w) ==
  /\ writer[w].pc = "incr" /\ gen < MaxGen
  /\ gen' = gen + 1
  /\ writer' = [writer EXCEPT ![w].pc = "bury"]
  /\ UNCHANGED <<db, clock, tombstone, cache, reader, settled, mishaps>>

Bury(w) ==
  /\ writer[w].pc = "bury"
  /\ tombstone' = writer[w].now
  /\ mishaps' = IF writer[w].now < tombstone THEN mishaps \cup {"overtaken"} ELSE mishaps
  /\ writer' = [writer EXCEPT ![w].pc = "del"]
  /\ UNCHANGED <<db, clock, gen, cache, reader, settled>>

Drop(w) ==
  /\ writer[w].pc = "del"
  /\ cache' = Null
  /\ settled' = IF writer[w].version > settled THEN writer[w].version ELSE settled
  /\ writer' = [writer EXCEPT ![w] = IdleWriter]
  /\ UNCHANGED <<db, clock, gen, tombstone, reader, mishaps>>

\* Redis fails at any command, or the server stops: the rest is lost.  The
\* caller goes on (the error is logged).
Abandon(w) ==
  /\ writer[w].pc # "idle"
  /\ writer' = [writer EXCEPT ![w] = IdleWriter]
  /\ UNCHANGED <<db, clock, keys, reader, settled, mishaps>>

-----------------------------------------------------------------------------
(* Time and Redis *)

Tick ==
  /\ clock < MaxClock /\ clock' = clock + 1
  /\ UNCHANGED <<db, keys, reader, writer, settled, mishaps>>

\* CACHE_TTL_SECONDS pass.
CopyExpires_Never == FALSE /\ UNCHANGED vars
CopyExpires ==
  /\ cache # Null /\ cache' = Null
  /\ UNCHANGED <<db, clock, gen, tombstone, reader, writer, settled, mishaps>>

\* A day without a change: no read and no invalidation takes as long.
KeysExpire ==
  /\ \A r \in Readers : reader[r].pc = "idle"
  /\ \A w \in Writers : writer[w].pc = "idle"
  /\ gen # 0 /\ gen' = 0 /\ tombstone' = 0
  /\ UNCHANGED <<db, clock, cache, reader, writer, settled, mishaps>>

\* Memory runs short, and one of the keys goes (the copy may go at any time).
EvictGeneration ==
  /\ gen # 0 /\ gen' = 0
  /\ mishaps' = mishaps \cup {"evicted gen"}
  /\ UNCHANGED <<db, clock, tombstone, cache, reader, writer, settled>>

EvictTombstone ==
  /\ tombstone # 0 /\ tombstone' = 0
  /\ mishaps' = mishaps \cup {"evicted tombstone"}
  /\ UNCHANGED <<db, clock, gen, cache, reader, writer, settled>>

Next ==
  \/ \E r \in Readers :
       Miss(r) \/ ReadGeneration(r) \/ ReadRow(r) \/ Fill(r) \/ Skip(r)
  \/ \E w \in Writers :
       \/ Change(w) \/ GuardHeals(w) \/ Stamp(w)
       \/ Increment(w) \/ Bury(w) \/ Drop(w) \/ Abandon(w)
  \/ Tick \/ CopyExpires \/ KeysExpire \/ EvictGeneration \/ EvictTombstone

Spec == Init /\ [][Next]_vars

\* A call of findById that has begun ends, and Redis keeps to the TTL.
FairSpec ==
  /\ Spec
  /\ WF_vars(CopyExpires)
  /\ \A r \in Readers :
       WF_vars(ReadGeneration(r)) /\ WF_vars(ReadRow(r)) /\ WF_vars(Fill(r) \/ Skip(r))

-----------------------------------------------------------------------------
(* Properties *)

\* Every variable has its type (users.store.ts:12-40).
TypeOK ==
  /\ db \in Versions /\ clock \in 1..MaxClock /\ settled \in Versions
  /\ gen \in 0..MaxGen /\ tombstone \in 0..MaxClock /\ cache \in Versions \cup {Null}
  /\ reader \in [Readers -> [pc : {"idle", "gen", "row", "fill"}, at : 0..MaxClock,
                             gen : 0..MaxGen, got : Versions]]
  /\ writer \in [Writers -> [pc : {"idle", "stamp", "incr", "bury", "del"},
                             now : 0..MaxClock, version : Versions]]
  /\ mishaps \subseteq Mishaps

\* Once a change has been invalidated, no older copy is served, whatever reads
\* of the row were under way when it was made (safeSetUserCache).
CacheIsCurrent == cache # Null => cache >= settled

\* The same, unless a delayed invalidation put back an older tombstone, or keys
\* were dropped before their time (safeSetUserCache, invalidateUserCache).
CurrentWithoutMishap == mishaps = {} => CacheIsCurrent

\* A dropped generation does no harm (GRAMOZ-12 test matrix, SEC-09-F: "Evicted key
\* must not allow racing cache populate to bypass check and store stale data").
CurrentDespiteEviction == mishaps \subseteq {"evicted gen"} => CacheIsCurrent

\* Invalidations that overtake each other do no harm (SEC-09-C: "Invalidation
\* races prevented").
CurrentDespiteDelay == mishaps \subseteq {"overtaken"} => CacheIsCurrent

\* A copy that a failed invalidation left behind, or a late read put back, is
\* not served for ever: after the last change the cache agrees with the row.
StalenessEnds == <>[](cache \in {Null, db})
=============================================================================
