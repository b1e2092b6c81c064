------------------------------- MODULE Router -------------------------------
(***************************************************************************)
(* Router (omniord/router/router.py): concurrent requests routed to the    *)
(* local tier, or to the cloud tier directly or as a fallback, sharing one *)
(* cached verdict on the health of the local tier.                         *)
(*                                                                         *)
(* A request is a coroutine; its steps are the stretches between awaits:   *)
(* up to the health check or the first call of a backend, the health check *)
(* (which the local tier answers as it finds itself at some moment while   *)
(* it is awaited), and the answer of each backend.                         *)
(***************************************************************************)
EXTENDS Naturals, Providers

CONSTANTS
  Callers,     \* the concurrent requesters
  HealthTTL,   \* health_ttl
  MaxTime      \* bound on the clock

ASSUME RouterAssumption == HealthTTL \in Nat /\ MaxTime \in Nat

VARIABLES
  settings,    \* the cloud provider configured, and prefer_local
  now,         \* time.monotonic()
  up,          \* whether the local tier would pass a health check now
  changedAt,   \* when that last changed
  cache,       \* _health_cache, with `full` for "is not None"
  call         \* the request of each caller

tier == <<up, changedAt>>
vars == <<settings, now, tier, cache, call>>

Settings == [cloud : Clouds, preferLocal : BOOLEAN]

\* generate and stream take force; embed does not.
Requests == [op : {"generate", "stream"}, force : {"none", "local", "cloud"}]
              \cup [op : {"embed"}, force : {"none"}]

Errors == {"RouterError", "ProviderError", "escapes"}

Call == [at     : {"idle", "check", "local", "cloud"},
         req    : Requests,
         since  : 0..MaxTime,                 \* _local_healthy: `now`
         seen   : {"nothing", "up", "down"},  \* what the health check found
         used   : SUBSET {"local", "cloud"},  \* the tiers consulted, the local one
                                              \* perhaps through the cache (history)
         excuse : BOOLEAN,    \* whether the local tier's answer escaped, or came
                              \* in a stream (history)
         reason : BOOLEAN,    \* "fallback_reason is not None", then fell_back
         result : {"none", "local", "cloud"} \cup Errors]

NoCall(req) == [at |-> "idle", req |-> req, since |-> 0, seen |-> "nothing", used |-> {},
                excuse |-> FALSE, reason |-> FALSE, result |-> "none"]

TypeOK ==
  /\ settings \in Settings
  /\ now \in 0..MaxTime
  /\ up \in BOOLEAN /\ changedAt \in 0..now
  /\ cache \in [full : BOOLEAN, at : 0..now, healthy : BOOLEAN]
  /\ call \in [Callers -> Call]
  /\ \A c \in Callers : call[c].at = "cloud" => settings.cloud # "none"

Init ==
  /\ settings \in Settings
  /\ now = 0
  /\ up \in BOOLEAN /\ changedAt = 0
  /\ cache = [full |-> FALSE, at |-> 0, healthy |-> FALSE]
  /\ call = [c \in Callers |-> NoCall([op |-> "embed", force |-> "none"])]

-----------------------------------------------------------------------------
(***************************************************************************)
(* How a step leaves the record r of a request.                            *)
(***************************************************************************)
Ends(r, result) == [r EXCEPT !.at = "idle", !.result = result, !.since = 0,
                             !.seen = "nothing"]

Contact(r, where) == [r EXCEPT !.at = where, !.used = @ \cup {where}]

ToCloud_Unchecked(r) == Contact(r, "cloud")       \* mutant: no test for None
ToCloud(r) ==
  IF settings.cloud = "none" THEN Ends(r, "RouterError") ELSE Contact(r, "cloud")

\* Mutant: only an unhealthy tier makes a forced request fail, not a failed call.
LoseLocal_ForceForgotten(r) ==
  IF r.req.force = "local" /\ r.at # "local" THEN Ends(r, "RouterError") ELSE ToCloud(r)

\* The local tier is unhealthy, failed, took too long or scored too low.
LoseLocal(r) ==
  IF r.req.force = "local" THEN Ends(r, "RouterError")
  ELSE ToCloud([r EXCEPT !.reason = TRUE])

Decide(r, healthy) == IF healthy THEN Contact(r, "local") ELSE LoseLocal(r)

-----------------------------------------------------------------------------
(***************************************************************************)
(* _local_healthy: the verdict in the cache while it is fresh, or a check. *)
(***************************************************************************)
Fresh_Inclusive == cache.full /\ now - cache.at <= HealthTTL     \* mutant
Fresh == cache.full /\ now - cache.at < HealthTTL

GoLocal(req) ==
  \/ req.op = "embed"
  \/ req.force = "local"
  \/ req.force = "none" /\ settings.preferLocal

Request(c, req) ==
  /\ call[c].at = "idle"
  /\ LET r == NoCall(req) IN
     call' = [call EXCEPT ![c] =
       IF ~GoLocal(req) THEN ToCloud(r)
       ELSE IF Fresh THEN Decide([r EXCEPT !.used = {"local"}], cache.healthy)
       ELSE [Contact(r, "local") EXCEPT !.at = "check", !.since = now]]
  /\ UNCHANGED <<settings, now, tier, cache>>

\* The local tier answers the health check.
Probe(c) ==
  /\ call[c].at = "check"
  /\ call[c].seen = "nothing"
  /\ call' = [call EXCEPT ![c].seen = IF up THEN "up" ELSE "down"]
  /\ UNCHANGED <<settings, now, tier, cache>>

\* Mutant: the verdict is dated when it arrives.
Verdict_DatedLate(r) == [full |-> TRUE, at |-> now, healthy |-> r.seen = "up"]
Verdict(r) == [full |-> TRUE, at |-> r.since, healthy |-> r.seen = "up"]

\* The request resumes; a check that began earlier may overwrite a later one.
Checked(c) ==
  /\ call[c].at = "check"
  /\ call[c].seen # "nothing"
  /\ cache' = Verdict(call[c])
  /\ call' = [call EXCEPT ![c] =
       Decide([@ EXCEPT !.since = 0, !.seen = "nothing"], @.seen = "up")]
  /\ UNCHANGED <<settings, now, tier>>

-----------------------------------------------------------------------------
(***************************************************************************)
(* A backend answers.  generate gives up after latency_limit, and on a     *)
(* result that scores low; what is not a ProviderError or a timeout is not *)
(* caught.  A stream stays with its tier; its pieces change nothing until  *)
(* the one that ends it.                                                   *)
(***************************************************************************)
LocalAnswer_EmbedRaises(r, reply) ==     \* mutant: embed does not catch ProviderError
  LET result == LocalResult(r.req.op, reply) IN
  CASE result = "escapes" -> Ends([r EXCEPT !.excuse = TRUE], "escapes")
    [] result = "ProviderError" /\ r.req.op = "generate" -> LoseLocal(r)
    [] result = "ProviderError" /\ r.req.op = "embed" -> Ends(r, "ProviderError")
    [] result = "ProviderError" -> Ends([r EXCEPT !.excuse = TRUE], "ProviderError")
    [] OTHER -> Ends(r, "local")

LocalAnswer(r, reply) ==
  LET result == LocalResult(r.req.op, reply) IN
  CASE result = "escapes" -> Ends([r EXCEPT !.excuse = TRUE], "escapes")
    [] result = "ProviderError" /\ r.req.op # "stream" -> LoseLocal(r)
    [] result = "ProviderError" -> Ends([r EXCEPT !.excuse = TRUE], "ProviderError")
    [] OTHER -> Ends(r, "local")

Local(c) ==
  /\ call[c].at = "local"
  /\ \E r \in {LocalAnswer(call[c], reply) : reply \in Replies}
               \cup (IF call[c].req.op = "generate" THEN {LoseLocal(call[c])} ELSE {}) :
       call' = [call EXCEPT ![c] = r]
  /\ UNCHANGED <<settings, now, tier, cache>>

CloudAnswer(r, reply) ==
  LET result == CloudResult(settings.cloud, r.req.op, reply) IN
  Ends(r, IF result = "value" THEN "cloud" ELSE result)

Cloud(c) ==
  /\ call[c].at = "cloud"
  /\ \E reply \in Replies : call' = [call EXCEPT ![c] = CloudAnswer(@, reply)]
  /\ UNCHANGED <<settings, now, tier, cache>>

-----------------------------------------------------------------------------
\* The local tier comes and goes, and time passes.
Change ==
  /\ up' = ~up
  /\ changedAt' = now
  /\ UNCHANGED <<settings, now, cache, call>>

Tick ==
  /\ now < MaxTime
  /\ now' = now + 1
  /\ UNCHANGED <<settings, tier, cache, call>>

Next ==
  \/ \E c \in Callers :
       (\E req \in Requests : Request(c, req)) \/ Probe(c) \/ Checked(c) \/ Local(c) \/ Cloud(c)
  \/ Change \/ Tick

Spec == Init /\ [][Next]_vars

-----------------------------------------------------------------------------
(***************************************************************************)
(* Properties.                                                             *)
(***************************************************************************)

(* A verdict that the router would act on without asking is out of date by *)
(* less than the time to live: if it is wrong, the tier changed within that*)
(* time, however long a check took and in whatever order overlapping checks*)
(* came back (router.py:86-94).                                            *)
VerdictIsRecent ==
  Fresh /\ cache.healthy # up => now - changedAt < HealthTTL

(* A forced request contacts no other tier, not even for a health check;   *)
(* and a result says it fell back if and only if the local tier was asked  *)
(* before the cloud answered (router.py:108-109, base.py:47-48).           *)
TierRespected ==
  \A c \in Callers :
    /\ call[c].req.force = "local" => "cloud" \notin call[c].used
    /\ call[c].req.force = "cloud" => "local" \notin call[c].used
    /\ call[c].result = "cloud" /\ call[c].req.op = "generate" =>
         (call[c].reason <=> call[c].used = {"local", "cloud"})

(* A request that may use the cloud fails only when the cloud failed it or *)
(* is not configured, unless the local answer could not even be decoded or *)
(* a stream had begun (router.py:9-11).                                    *)
FallsBack ==
  \A c \in Callers :
    call[c].result \in Errors /\ call[c].req.force # "local" /\ ~call[c].excuse =>
      "cloud" \in call[c].used \/ settings.cloud = "none"

(* A generation that may use the cloud fails only when the cloud failed it *)
(* or is not configured, whatever is wrong with the local answer (router.  *)
(* py:9-11, base.py:23).                                                   *)
AlwaysFallsBack ==
  \A c \in Callers :
    call[c].result \in Errors /\ call[c].req.op = "generate" /\ call[c].req.force # "local" =>
      "cloud" \in call[c].used \/ settings.cloud = "none"
=============================================================================
