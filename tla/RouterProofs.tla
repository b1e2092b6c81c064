---------------------------- MODULE RouterProofs ----------------------------
(***************************************************************************)
(* Of the router, for any number of callers, any time to live and however  *)
(* long health checks take: it never calls a cloud provider that is not    *)
(* configured, the verdict it would act on is never out of date by the     *)
(* time to live or more, a request contacts no tier it may not, and fails  *)
(* only when the tiers it may use have failed it.                          *)
(***************************************************************************)
EXTENDS Router, TLAPS

(* The outcomes of a request, as the record that is left.                  *)
Outcome(r) == r \in Call /\ r.at # "check" /\ (r.at = "cloud" => settings.cloud # "none")

LEMMA EndsOutcome ==
  ASSUME RouterAssumption, NEW r \in Call, NEW result \in {"local", "cloud"} \cup Errors
  PROVE  Outcome(Ends(r, result))
<1>1. 0 \in 0..MaxTime
  BY DEF RouterAssumption
<1>2. result \in {"none", "local", "cloud"} \cup Errors
  OBVIOUS
<1> QED  BY <1>1, <1>2 DEF Outcome, Ends, Call

LEMMA ToCloudOutcome ==
  ASSUME RouterAssumption, NEW r \in Call
  PROVE  Outcome(ToCloud(r))
<1>1. CASE settings.cloud = "none"
  BY <1>1, EndsOutcome DEF ToCloud, Errors
<1>2. CASE settings.cloud # "none"
  BY <1>2 DEF ToCloud, Contact, Outcome, Call
<1> QED  BY <1>1, <1>2

LEMMA LoseLocalOutcome ==
  ASSUME RouterAssumption, NEW r \in Call
  PROVE  Outcome(LoseLocal(r))
<1>1. [r EXCEPT !.reason = TRUE] \in Call
  BY DEF Call
<1> QED  BY <1>1, ToCloudOutcome, EndsOutcome DEF LoseLocal, Errors

LEMMA DecideOutcome ==
  ASSUME RouterAssumption, NEW r \in Call, NEW healthy
  PROVE  Outcome(Decide(r, healthy))
<1>1. Outcome(Contact(r, "local"))
  BY DEF Contact, Outcome, Call
<1> QED  BY <1>1, LoseLocalOutcome DEF Decide

LEMMA LocalAnswerOutcome ==
  ASSUME RouterAssumption, NEW r \in Call, NEW reply \in Replies
  PROVE  Outcome(LocalAnswer(r, reply))
<1> DEFINE result == LocalResult(r.req.op, reply)
<1>1. [r EXCEPT !.excuse = TRUE] \in Call
  BY DEF Call
<1>2. CASE result = "escapes"
  BY <1>1, <1>2, EndsOutcome DEF LocalAnswer, Errors
<1>3. CASE result = "ProviderError"
  BY <1>1, <1>3, EndsOutcome, LoseLocalOutcome DEF LocalAnswer, Errors
<1>4. CASE result \notin {"escapes", "ProviderError"}
  BY <1>4, EndsOutcome DEF LocalAnswer
<1> QED  BY <1>2, <1>3, <1>4

LEMMA CloudAnswerOutcome ==
  ASSUME RouterAssumption, NEW r \in Call, NEW reply \in Replies,
         settings \in Settings, settings.cloud # "none"
  PROVE  Outcome(CloudAnswer(r, reply))
<1> DEFINE result == CloudResult(settings.cloud, r.req.op, reply)
<1>1. r.req.op \in {"generate", "stream", "embed"} /\ settings.cloud \in {"anthropic", "openai"}
  BY DEF Call, Requests, Settings, Clouds
<1>2. result \in {"value", "ProviderError", "escapes"}
  BY <1>1 DEF CloudResult, AnthropicGenerate, AnthropicEmbed, AnthropicPiece, OllamaPiece,
              OpenAIGenerate, OpenAIEmbed, OpenAIPiece
<1> QED  BY <1>2, EndsOutcome DEF CloudAnswer, Errors

-----------------------------------------------------------------------------
(***************************************************************************)
(* The invariant.  A verdict, in the cache or on its way there, is only    *)
(* wrong if the tier changed after the check it comes from began: a check  *)
(* that comes back late brings its own, earlier, date.                     *)
(***************************************************************************)
Dated(healthy, since) == since <= now /\ (healthy # up => changedAt >= since)

Verdicts ==
  /\ cache.full => Dated(cache.healthy, cache.at)
  /\ \A c \in Callers : call[c].at = "check" =>
       /\ call[c].since <= now
       /\ call[c].seen # "nothing" => Dated(call[c].seen = "up", call[c].since)

Inv == TypeOK /\ Verdicts

LEMMA InitInv == Init => Inv
<1> SUFFICES ASSUME Init PROVE Inv
  OBVIOUS
<1>1. NoCall([op |-> "embed", force |-> "none"]) \in Call
  BY RouterAssumption DEF NoCall, Call, Requests
<1> QED
  BY <1>1, RouterAssumption DEF Init, Inv, TypeOK, Verdicts, NoCall

(* A step of one caller to an outcome, the cache as it was.                *)
LEMMA CallerStep ==
  ASSUME Inv, NEW c \in Callers, NEW r, Outcome(r),
         call' = [call EXCEPT ![c] = r],
         UNCHANGED <<settings, now, tier, cache>>
  PROVE  Inv'
<1>1. TypeOK'
  BY RouterAssumption DEF Inv, TypeOK, Outcome, tier
<1>2. Verdicts'
  BY RouterAssumption DEF Inv, TypeOK, Verdicts, Outcome, tier, Dated
<1> QED  BY <1>1, <1>2 DEF Inv

LEMMA NextInv == Inv /\ [Next]_vars => Inv'
<1> SUFFICES ASSUME Inv, [Next]_vars PROVE Inv'
  OBVIOUS
<1> USE RouterAssumption
<1>1. ASSUME NEW c \in Callers, NEW req \in Requests, Request(c, req) PROVE Inv'
  <2> DEFINE r == NoCall(req)
  <2>1. r \in Call
    BY DEF NoCall, Call
  <2>2. CASE ~GoLocal(req)
    BY <2>1, <2>2, <1>1, ToCloudOutcome, CallerStep DEF Request
  <2>3. CASE GoLocal(req) /\ Fresh
    <3>1. [r EXCEPT !.used = {"local"}] \in Call
      BY <2>1 DEF Call
    <3> QED  BY <3>1, <2>3, <1>1, DecideOutcome, CallerStep DEF Request
  <2>4. CASE GoLocal(req) /\ ~Fresh
    <3> DEFINE k == [Contact(r, "local") EXCEPT !.at = "check", !.since = now]
    <3>1. k \in Call /\ k.at = "check" /\ k.since = now /\ k.seen = "nothing"
      BY <2>1 DEF NoCall, Contact, Call, Inv, TypeOK
    <3>2. call' = [call EXCEPT ![c] = k] /\ UNCHANGED <<settings, now, tier, cache>>
      BY <1>1, <2>4 DEF Request
    <3> HIDE DEF k
    <3>3. TypeOK'
      BY <3>1, <3>2 DEF Inv, TypeOK, tier
    <3>4. Verdicts'
      BY <3>1, <3>2 DEF Inv, TypeOK, Verdicts, tier, Dated
    <3> QED  BY <3>3, <3>4 DEF Inv
  <2> QED  BY <2>2, <2>3, <2>4
<1>2. ASSUME NEW c \in Callers, Probe(c) PROVE Inv'
  <2> DEFINE k == [call[c] EXCEPT !.seen = IF up THEN "up" ELSE "down"]
  <2>1. k \in Call /\ k.at = "check" /\ k.since = call[c].since /\ (k.seen = "up" <=> up)
    BY <1>2 DEF Probe, Call, Inv, TypeOK
  <2>2. call' = [call EXCEPT ![c] = k] /\ UNCHANGED <<settings, now, tier, cache>>
    BY <1>2 DEF Probe
  <2> HIDE DEF k
  <2>3. TypeOK'
    BY <2>1, <2>2 DEF Inv, TypeOK, tier
  <2>4. Verdicts'
    BY <2>1, <2>2, <1>2 DEF Probe, Inv, TypeOK, Verdicts, tier, Dated
  <2> QED  BY <2>3, <2>4 DEF Inv
<1>3. ASSUME NEW c \in Callers, Checked(c) PROVE Inv'
  <2> DEFINE q == [call[c] EXCEPT !.since = 0, !.seen = "nothing"]
             k == Decide(q, call[c].seen = "up")
  <2>1. q \in Call
    <3>1. call[c] \in Call /\ 0 \in 0..MaxTime
      BY DEF Inv, TypeOK
    <3> QED  BY <3>1 DEF Call
  <2>2. Outcome(k)
    BY <2>1, DecideOutcome
  <2>3. call' = [call EXCEPT ![c] = k] /\ cache' = Verdict(call[c])
        /\ UNCHANGED <<settings, now, tier>>
    BY <1>3 DEF Checked
  <2>4. call[c].since \in 0..now /\ Dated(call[c].seen = "up", call[c].since)
    BY <1>3 DEF Checked, Inv, TypeOK, Verdicts, Call
  <2> HIDE DEF k
  <2>5. TypeOK'
    BY <2>2, <2>3, <2>4 DEF Inv, TypeOK, tier, Outcome, Verdict
  <2>6. Verdicts'
    BY <2>2, <2>3, <2>4 DEF Inv, TypeOK, Verdicts, tier, Dated, Outcome, Verdict
  <2> QED  BY <2>5, <2>6 DEF Inv
<1>4. ASSUME NEW c \in Callers, Local(c) PROVE Inv'
  <2>1. call[c] \in Call
    BY DEF Inv, TypeOK
  <2>2. PICK r \in {LocalAnswer(call[c], reply) : reply \in Replies} \cup {LoseLocal(call[c])} :
          call' = [call EXCEPT ![c] = r]
    BY <1>4 DEF Local
  <2>3. Outcome(r)
    BY <2>1, <2>2, LocalAnswerOutcome, LoseLocalOutcome
  <2> QED  BY <2>2, <2>3, <1>4, CallerStep DEF Local
<1>5. ASSUME NEW c \in Callers, Cloud(c) PROVE Inv'
  <2>1. call[c] \in Call /\ settings \in Settings /\ settings.cloud # "none"
    BY <1>5 DEF Cloud, Inv, TypeOK
  <2>2. PICK reply \in Replies : call' = [call EXCEPT ![c] = CloudAnswer(call[c], reply)]
    BY <1>5 DEF Cloud
  <2>3. Outcome(CloudAnswer(call[c], reply))
    BY <2>1, CloudAnswerOutcome
  <2> QED  BY <2>2, <2>3, <1>5, CallerStep DEF Cloud
<1>6. CASE Change
  BY <1>6 DEF Change, Inv, TypeOK, Verdicts, Dated
<1>7. CASE Tick
  <2>1. TypeOK'
    BY <1>7 DEF Tick, Inv, TypeOK, tier
  <2>2. Verdicts'
    BY <1>7 DEF Tick, Inv, TypeOK, Verdicts, Dated, tier, Call
  <2> QED  BY <2>1, <2>2 DEF Inv
<1>8. CASE UNCHANGED vars
  BY <1>8 DEF vars, tier, Inv, TypeOK, Verdicts, Dated
<1> QED
  BY <1>1, <1>2, <1>3, <1>4, <1>5, <1>6, <1>7, <1>8 DEF Next

-----------------------------------------------------------------------------
(* The state keeps its types, and no request is ever handed to a cloud     *)
(* provider that is not configured (router.py:152-154).                    *)
THEOREM TypeCorrect == Spec => []TypeOK
<1>1. Init => Inv  BY InitInv
<1>2. Inv /\ [Next]_vars => Inv'  BY NextInv
<1>3. Inv => TypeOK  BY DEF Inv
<1> QED  BY <1>1, <1>2, <1>3, PTL DEF Spec

(* A verdict the router would act on without asking is wrong only if the   *)
(* tier changed within the time to live (router.py:86-94).                 *)
THEOREM ActsOnRecentVerdicts == Spec => []VerdictIsRecent
<1>1. Init => Inv  BY InitInv
<1>2. Inv /\ [Next]_vars => Inv'  BY NextInv
<1>3. Inv => VerdictIsRecent
  BY RouterAssumption DEF Inv, TypeOK, Verdicts, Dated, VerdictIsRecent, Fresh
<1> QED  BY <1>1, <1>2, <1>3, PTL DEF Spec
-----------------------------------------------------------------------------
(***************************************************************************)
(* Where a request may go, and what its end says of where it went.         *)
(***************************************************************************)
\* A request that was at the local tier, or got its verdict, and no further.
OnlyLocal(r) ==
  /\ r \in Call /\ r.used = {"local"} /\ r.req.force # "cloud"
  /\ ~r.reason /\ ~r.excuse /\ r.result = "none"

\* A request that may go on to the cloud.
CloudNext(r) ==
  /\ r \in Call /\ r.used \subseteq {"local"} /\ r.req.force # "local"
  /\ r.req.force = "cloud" => r.used = {}
  /\ r.reason <=> r.used = {"local"}
  /\ r.result = "none"

Routed(r) ==
  /\ r.at \in {"check", "local"} => OnlyLocal(r)
  /\ r.at = "cloud" => "cloud" \in r.used /\ (r.reason <=> "local" \in r.used)
  /\ r.req.force = "local" => "cloud" \notin r.used /\ r.at # "cloud"
  /\ r.req.force = "cloud" => "local" \notin r.used
  /\ r.result = "cloud" /\ r.req.op = "generate" =>
       (r.reason <=> r.used = {"local", "cloud"})
  /\ r.result \in Errors /\ r.req.force # "local" /\ ~r.excuse =>
       "cloud" \in r.used \/ settings.cloud = "none"

(* What ending a request leaves of it.                                     *)
LEMMA EndsFields ==
  ASSUME NEW r \in Call, NEW result
  PROVE  /\ Ends(r, result).at = "idle" /\ Ends(r, result).result = result
         /\ Ends(r, result).req = r.req /\ Ends(r, result).used = r.used
         /\ Ends(r, result).reason = r.reason /\ Ends(r, result).excuse = r.excuse
BY DEF Ends, Call

LEMMA ToCloudRouted ==
  ASSUME NEW r, CloudNext(r)
  PROVE  Routed(ToCloud(r))
<1> DEFINE k == ToCloud(r)
<1>1. CASE settings.cloud = "none"
  <2>1. /\ k.at = "idle" /\ k.result = "RouterError" /\ k.req = r.req /\ k.used = r.used
    BY <1>1, EndsFields DEF ToCloud, CloudNext
  <2> HIDE DEF k
  <2>2. Routed(k)
    BY <1>1, <2>1 DEF Routed, CloudNext
  <2> QED  BY <2>2 DEF k
<1>2. CASE settings.cloud # "none"
  <2>1. /\ k.at = "cloud" /\ k.result = r.result /\ k.req = r.req
        /\ k.used = r.used \cup {"cloud"} /\ k.reason = r.reason
    BY <1>2 DEF ToCloud, Contact, Call, CloudNext
  <2>2. k.reason <=> "local" \in k.used
    BY <2>1 DEF CloudNext
  <2> HIDE DEF k
  <2>3. Routed(k)
    BY <2>1, <2>2 DEF Routed, CloudNext, Errors
  <2> QED  BY <2>3 DEF k
<1> QED  BY <1>1, <1>2

LEMMA LoseLocalRouted ==
  ASSUME NEW r, OnlyLocal(r)
  PROVE  Routed(LoseLocal(r))
<1>1. CASE r.req.force = "local"
  <2> DEFINE k == Ends(r, "RouterError")
  <2>1. /\ k.at = "idle" /\ k.result = "RouterError" /\ k.req = r.req /\ k.used = r.used
    BY EndsFields DEF OnlyLocal
  <2> HIDE DEF k
  <2>2. Routed(k)
    BY <1>1, <2>1 DEF Routed, OnlyLocal
  <2> QED  BY <1>1, <2>2 DEF LoseLocal, k
<1>2. CASE r.req.force # "local"
  <2> DEFINE k == [r EXCEPT !.reason = TRUE]
  <2>1. k \in Call /\ k.used = r.used /\ k.req = r.req /\ k.reason /\ k.result = r.result
    BY DEF OnlyLocal, Call
  <2> HIDE DEF k
  <2>2. CloudNext(k)
    BY <1>2, <2>1 DEF OnlyLocal, CloudNext
  <2> QED  BY <1>2, <2>2, ToCloudRouted DEF LoseLocal, k
<1> QED  BY <1>1, <1>2

LEMMA DecideRouted ==
  ASSUME NEW r, NEW healthy, OnlyLocal(r)
  PROVE  Routed(Decide(r, healthy))
<1> DEFINE k == Contact(r, "local")
<1>1. /\ k \in Call /\ k.at = "local" /\ k.req = r.req /\ k.used = r.used
      /\ k.reason = r.reason /\ k.excuse = r.excuse /\ k.result = r.result
  BY DEF Contact, Call, OnlyLocal
<1> HIDE DEF k
<1>2. OnlyLocal(k)
  BY <1>1 DEF OnlyLocal
<1>3. Routed(k)
  BY <1>1, <1>2 DEF Routed, OnlyLocal, Errors
<1> QED  BY <1>3, LoseLocalRouted DEF Decide, k

LEMMA LocalAnswerRouted ==
  ASSUME NEW r, NEW reply, OnlyLocal(r)
  PROVE  Routed(LocalAnswer(r, reply))
<1> DEFINE x == [r EXCEPT !.excuse = TRUE]
<1>1. x \in Call /\ x.used = r.used /\ x.req = r.req /\ x.excuse
  BY DEF OnlyLocal, Call
<1> HIDE DEF x
<1>2. ASSUME NEW o \in {"escapes", "ProviderError"} PROVE Routed(Ends(x, o))
  <2> DEFINE k == Ends(x, o)
  <2>1. k.at = "idle" /\ k.result = o /\ k.used = x.used /\ k.req = x.req /\ k.excuse = x.excuse
    BY <1>1, EndsFields
  <2>2. k.excuse
    BY <1>1, <2>1
  <2> HIDE DEF k
  <2>3. Routed(k)
    BY <1>1, <2>1, <2>2 DEF Routed, OnlyLocal
  <2> QED  BY <2>3 DEF k
<1>3. Routed(Ends(r, "local"))
  <2> DEFINE k == Ends(r, "local")
  <2>1. k.at = "idle" /\ k.result = "local" /\ k.used = r.used /\ k.req = r.req
    BY EndsFields DEF OnlyLocal
  <2> HIDE DEF k
  <2>2. Routed(k)
    BY <2>1 DEF Routed, OnlyLocal, Errors
  <2> QED  BY <2>2 DEF k
<1>4. LocalAnswer(r, reply) \in {Ends(x, "escapes"), Ends(x, "ProviderError"), LoseLocal(r),
                                 Ends(r, "local")}
  BY DEF LocalAnswer, x
<1> QED  BY <1>2, <1>3, <1>4, LoseLocalRouted

LEMMA CloudAnswerRouted ==
  ASSUME NEW r \in Call, NEW reply, Routed(r), r.at = "cloud"
  PROVE  Routed(CloudAnswer(r, reply))
<1> DEFINE result == CloudResult(settings.cloud, r.req.op, reply)
           o == IF result = "value" THEN "cloud" ELSE result
           k == Ends(r, o)
<1>1. k = CloudAnswer(r, reply)
  BY DEF CloudAnswer
<1>2. /\ k.at = "idle" /\ k.used = r.used /\ k.req = r.req /\ k.reason = r.reason
  BY EndsFields
<1>3. k.reason <=> k.used = {"local", "cloud"}
  BY <1>2 DEF Routed, Call
<1> HIDE DEF k
<1>4. Routed(k)
  BY <1>2, <1>3 DEF Routed, Call
<1> QED  BY <1>1, <1>4

-----------------------------------------------------------------------------
AllRouted == \A c \in Callers : Routed(call[c])

LEMMA InitRouted == Init => AllRouted
<1> SUFFICES ASSUME Init PROVE AllRouted
  OBVIOUS
<1> DEFINE k == NoCall([op |-> "embed", force |-> "none"])
<1>1. k.at = "idle" /\ k.result = "none" /\ k.used = {} /\ k.req.force = "none"
  BY DEF NoCall
<1>2. \A c \in Callers : call[c] = k
  BY DEF Init
<1> HIDE DEF k
<1>3. Routed(k)
  BY <1>1 DEF Routed, Errors
<1> QED  BY <1>2, <1>3 DEF AllRouted

LEMMA NextRouted == Inv /\ AllRouted /\ [Next]_vars => AllRouted'
<1> SUFFICES ASSUME Inv, AllRouted, [Next]_vars PROVE AllRouted'
  OBVIOUS
<1>0. call \in [Callers -> Call]
  BY DEF Inv, TypeOK
<1>a. ASSUME NEW c \in Callers, NEW r, Routed(r), call' = [call EXCEPT ![c] = r],
             settings' = settings
      PROVE  AllRouted'
  BY <1>0, <1>a DEF AllRouted, Routed
<1>1. ASSUME NEW c \in Callers, NEW req \in Requests, Request(c, req) PROVE AllRouted'
  <2> DEFINE r == NoCall(req)
  <2>1. /\ r \in Call /\ r.used = {} /\ r.req = req /\ r.result = "none" /\ r.at = "idle"
        /\ r.reason = FALSE /\ r.excuse = FALSE
    BY RouterAssumption DEF NoCall, Call
  <2>2. settings' = settings
    BY <1>1 DEF Request
  <2>3. CASE ~GoLocal(req)
    <3>1. CloudNext(r)
      BY <2>1, <2>3 DEF GoLocal, Requests, CloudNext
    <3>2. call' = [call EXCEPT ![c] = ToCloud(r)]
      BY <1>1, <2>3 DEF Request
    <3> QED  BY <1>a, <2>2, <3>1, <3>2, ToCloudRouted
  <2>4. CASE GoLocal(req)
    <3>1. req.force # "cloud"
      BY <2>4 DEF GoLocal, Requests
    <3>2. CASE Fresh
      <4> DEFINE k == [r EXCEPT !.used = {"local"}]
      <4>1. /\ k \in Call /\ k.used = {"local"} /\ k.req = req /\ k.result = "none"
            /\ k.reason = FALSE /\ k.excuse = FALSE
        BY <2>1 DEF Call
      <4>2. call' = [call EXCEPT ![c] = Decide(k, cache.healthy)]
        BY <1>1, <2>4, <3>2 DEF Request
      <4> HIDE DEF k
      <4>3. OnlyLocal(k)
        BY <3>1, <4>1 DEF OnlyLocal
      <4> QED  BY <1>a, <2>2, <4>2, <4>3, DecideRouted
    <3>3. CASE ~Fresh
      <4> DEFINE k == [Contact(r, "local") EXCEPT !.at = "check", !.since = now]
      <4>1. now \in 0..MaxTime
        BY DEF Inv, TypeOK
      <4>2. /\ k \in Call /\ k.used = {"local"} /\ k.req = req /\ k.result = "none"
            /\ k.reason = FALSE /\ k.excuse = FALSE /\ k.at = "check"
        BY <2>1, <4>1 DEF Contact, Call
      <4>3. call' = [call EXCEPT ![c] = k]
        BY <1>1, <2>4, <3>3 DEF Request
      <4> HIDE DEF k
      <4>4. OnlyLocal(k)
        BY <3>1, <4>2 DEF OnlyLocal
      <4>5. Routed(k)
        BY <3>1, <4>2, <4>4 DEF Routed, Errors
      <4> QED  BY <1>a, <2>2, <4>3, <4>5
    <3> QED  BY <3>2, <3>3
  <2> QED  BY <2>3, <2>4
<1>2. ASSUME NEW c \in Callers, Probe(c) PROVE AllRouted'
  <2> DEFINE k == [call[c] EXCEPT !.seen = IF up THEN "up" ELSE "down"]
             r == call[c]
  <2>1. r \in Call /\ Routed(r) /\ r.at = "check"
    BY <1>0, <1>2 DEF Probe, AllRouted
  <2>2. /\ k \in Call /\ k.at = r.at /\ k.req = r.req /\ k.used = r.used
        /\ k.reason = r.reason /\ k.excuse = r.excuse /\ k.result = r.result
    BY <2>1 DEF Call
  <2>3. call' = [call EXCEPT ![c] = k] /\ settings' = settings
    BY <1>2 DEF Probe
  <2> HIDE DEF k, r
  <2>4. OnlyLocal(k)
    BY <2>1, <2>2 DEF Routed, OnlyLocal
  <2>5. Routed(k)
    BY <2>1, <2>2, <2>4 DEF Routed, OnlyLocal, Errors
  <2> QED  BY <1>a, <2>3, <2>5
<1>3. ASSUME NEW c \in Callers, Checked(c) PROVE AllRouted'
  <2> DEFINE k == [call[c] EXCEPT !.since = 0, !.seen = "nothing"]
             r == call[c]
  <2>1. r \in Call /\ Routed(r) /\ r.at = "check" /\ 0 \in 0..MaxTime
    BY <1>0, <1>3, RouterAssumption DEF Checked, AllRouted
  <2>2. /\ k \in Call /\ k.req = r.req /\ k.used = r.used
        /\ k.reason = r.reason /\ k.excuse = r.excuse /\ k.result = r.result
    BY <2>1 DEF Call
  <2>3. call' = [call EXCEPT ![c] = Decide(k, call[c].seen = "up")] /\ settings' = settings
    BY <1>3 DEF Checked
  <2> HIDE DEF k, r
  <2>4. OnlyLocal(k)
    BY <2>1, <2>2 DEF Routed, OnlyLocal
  <2> QED  BY <1>a, <2>3, <2>4, DecideRouted
<1>4. ASSUME NEW c \in Callers, Local(c) PROVE AllRouted'
  <2>1. OnlyLocal(call[c]) /\ settings' = settings
    BY <1>4 DEF Local, AllRouted, Routed
  <2>2. PICK r \in {LocalAnswer(call[c], reply) : reply \in Replies} \cup {LoseLocal(call[c])} :
          call' = [call EXCEPT ![c] = r]
    BY <1>4 DEF Local
  <2>3. Routed(r)
    BY <2>1, <2>2, LocalAnswerRouted, LoseLocalRouted
  <2> QED  BY <1>a, <2>1, <2>2, <2>3
<1>5. ASSUME NEW c \in Callers, Cloud(c) PROVE AllRouted'
  <2>1. PICK reply \in Replies : call' = [call EXCEPT ![c] = CloudAnswer(call[c], reply)]
    BY <1>5 DEF Cloud
  <2>2. Routed(CloudAnswer(call[c], reply)) /\ settings' = settings
    BY <1>0, <1>5, CloudAnswerRouted DEF Cloud, AllRouted
  <2> QED  BY <1>a, <2>1, <2>2
<1>6. CASE UNCHANGED <<settings, call>>
  BY <1>6 DEF AllRouted, Routed
<1> QED
  BY <1>1, <1>2, <1>3, <1>4, <1>5, <1>6 DEF Next, Change, Tick, vars

(* The routing facts hold of every behaviour of the router.                *)
THEOREM RoutingInvariance == Spec => []AllRouted
<1>1. Init => Inv /\ AllRouted  BY InitInv, InitRouted
<1>2. Inv /\ AllRouted /\ [Next]_vars => (Inv /\ AllRouted)'  BY NextInv, NextRouted
<1> QED  BY <1>1, <1>2, PTL DEF Spec

(* A forced request contacts no other tier, and a result says it fell back *)
(* exactly when the local tier was consulted first (router.py:108-109).    *)
THEOREM RespectsTier == Spec => []TierRespected
<1>1. AllRouted => TierRespected
  BY DEF AllRouted, Routed, TierRespected
<1> QED  BY <1>1, RoutingInvariance, PTL

(* A request that may use the cloud fails only when the cloud failed it or *)
(* is not configured (router.py:9-11).                                     *)
THEOREM RequestsFallBack == Spec => []FallsBack
<1>1. AllRouted => FallsBack
  BY DEF AllRouted, Routed, FallsBack
<1> QED  BY <1>1, RoutingInvariance, PTL
=============================================================================
