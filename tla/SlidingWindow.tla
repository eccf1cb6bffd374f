---------------------------- MODULE SlidingWindow ----------------------------
(***************************************************************************)
(* slidingWindowRateLimit of cache, for one key and one process: a sorted  *)
(* set in Redis that is trimmed, counted and added to in one pipeline, by  *)
(* the clock the call has read before, and a list in memory that takes its *)
(* place when Redis is away or rejects.                                    *)
(***************************************************************************)
EXTENDS Naturals, FiniteSets

CONSTANTS Requests,  \* how many requests come, numbered as they do
          Limit,     \* max
          Window,    \* windowMs in ticks
          MaxClock   \* bound on time

VARIABLES now,
          zset,      \* the requests in the sorted set
          memory,    \* the requests in fallbackMap
          request,
          newest,    \* history: the latest clock the set, or the list, was trimmed by
          late       \* history: the requests that came behind a later one there

windowVars == <<now, zset, memory, request, newest, late>>

Request == 1 .. Requests
New == [pc |-> "new"]
At(q) == request[q].at
Within(t, q) == At(q) + Window > t

TypeOK ==
  /\ now \in 0 .. MaxClock
  /\ zset \subseteq Request /\ memory \subseteq Request /\ late \subseteq Request
  /\ newest \in [{"redis", "memory"} -> 0 .. MaxClock]
  /\ request \in [Request -> {New} \cup [pc : {"exec", "zrem", "redis", "memory", "unmetered", "refused"}, at : 0 .. MaxClock]]

Init ==
  /\ now = 0
  /\ zset = {} /\ memory = {} /\ late = {}
  /\ request = [q \in Request |-> New]
  /\ newest = [p \in {"redis", "memory"} |-> 0]

Decided(q, pc, t) == request' = [request EXCEPT ![q] = [pc |-> pc, at |-> t]]

\* The places request q trims by the clock t.
Trims(q, places, t) ==
  /\ newest' = [p \in {"redis", "memory"} |-> IF p \in places /\ t > newest[p] THEN t ELSE newest[p]]
  /\ late' = IF \E p \in places : t < newest[p] THEN late \cup {q} ELSE late

\* In memory, without an await, by the clock of the start.
FallBack(q, t) ==
  LET trimmed == {o \in memory : Within(t, o)} IN
  IF Cardinality(trimmed) >= Limit
  THEN memory' = trimmed /\ Decided(q, "refused", t)
  ELSE memory' = trimmed \cup {q} /\ Decided(q, "memory", t)

\* getRedis() has a client, or none: connections are lost and come back.
Begin(q) ==
  /\ request[q] = New /\ \A o \in 1 .. q - 1 : request[o] # New
  /\ \/ Decided(q, "exec", now) /\ UNCHANGED <<memory, newest, late>>
     \/ FallBack(q, now) /\ Trims(q, {"memory"}, now)
  /\ UNCHANGED <<now, zset>>

\* Mutant of CountBefore: the answer to ZADD is taken for the count.
CountBeforeAdded(trimmed) == 1

CountBefore(trimmed) == Cardinality(trimmed)

\* The set after the pipeline; it expires as a whole only when all of it is out of date.
Trimmed(q) == {o \in zset : Within(At(q), o)}

Pipeline(q) ==
  /\ request[q].pc = "exec"
  /\ zset' = Trimmed(q) \cup {q}
  /\ Decided(q, IF CountBefore(Trimmed(q)) >= Limit THEN "zrem" ELSE "redis", At(q))
  /\ Trims(q, {"redis"}, At(q))
  /\ UNCHANGED <<now, memory>>

\* Redis answers, but without a count, which is then taken for 0; the pipeline is carried
\* out or not.
PipelineErrs(q) ==
  /\ request[q].pc = "exec"
  /\ Decided(q, IF 0 >= Limit THEN "zrem" ELSE "unmetered", At(q))
  /\ \/ UNCHANGED <<zset, newest, late>>
     \/ zset' = Trimmed(q) \cup {q} /\ Trims(q, {"redis"}, At(q))
  /\ UNCHANGED <<now, memory>>

\* A refused request takes its own member out again.
Undo(q) ==
  /\ request[q].pc = "zrem"
  /\ zset' = zset \ {q}
  /\ Decided(q, "refused", At(q))
  /\ UNCHANGED <<now, memory, newest, late>>

\* The pipeline or the removal rejects, carried out or not.
RedisRejects(q) ==
  /\ request[q].pc \in {"exec", "zrem"}
  /\ FallBack(q, At(q))
  /\ \/ UNCHANGED zset /\ Trims(q, {"memory"}, At(q))
     \/ request[q].pc = "exec" /\ zset' = Trimmed(q) \cup {q} /\ Trims(q, {"redis", "memory"}, At(q))
     \/ request[q].pc = "zrem" /\ zset' = zset \ {q} /\ Trims(q, {"memory"}, At(q))
  /\ UNCHANGED now

Tick == now < MaxClock /\ now' = now + 1 /\ UNCHANGED <<zset, memory, request, newest, late>>

Next ==
  \/ Tick
  \/ \E q \in Request : Begin(q) \/ Pipeline(q) \/ PipelineErrs(q) \/ Undo(q) \/ RedisRejects(q)

-----------------------------------------------------------------------------
\* Redis lets no more than max requests pass in any window, and memory no more than max
\* besides, whatever is refused, lost or undone meanwhile, unless a request came to
\* the set behind one with a later clock, whose trimming is not its own.  (A request
\* let through by an answer without a count is not metered.)
RateIsLimited ==
  \A p \in {"redis", "memory"}, t \in 0 .. MaxClock :
    LET passed == {q \in Request : request[q].pc = p /\ At(q) <= t /\ Within(t, q)} IN
    Cardinality(passed) <= Limit \/ passed \cap late # {}
=============================================================================
