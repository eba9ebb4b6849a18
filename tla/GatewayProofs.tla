---------------------------- MODULE GatewayProofs ----------------------------
(***************************************************************************)
(* Proofs about Endpoints, and about Gateway on top of it, for any         *)
(* endpoints, policies, rules, callers and limits, any number of requests  *)
(* that manage them, and any failures.                                     *)
(*                                                                         *)
(* Management: of two writes of an endpoint the later one either finds no  *)
(* event due, and then its own is the only one to come, or it crosses the  *)
(* earlier one's.  A request inserts a policy only if it found none, so    *)
(* that it cannot find none again.                                         *)
(*                                                                         *)
(* Enforcement: each point of Enforce carries what its request has seen:   *)
(* an endpoint that was active, a policy that let it through or could not  *)
(* be read.  A counter of Redis is never behind what has been let through. *)
(***************************************************************************)
EXTENDS Gateway, TLAPS

LEMMA InitManagement == Init => ManagementInv
  BY EndpointsAssumption
  DEF Init, ManagementInv, TypeOK, RequestsKnown, RulesKnown, OneEventDue,
      AnnouncedAgrees, FreeRowsUnsigned, FirstForItsAuthor, OnePolicyPerAuthor

(* The policies are left alone by a request about an endpoint, which does  *)
(* not reach "put" or "create".                                            *)
LEMMA PoliciesKept ==
  ASSUME ManagementInv, NEW a \in Admin,
         UNCHANGED policyVars,
         \A b \in Admin \ {a} : /\ pc'[b] = pc[b] /\ subject'[b] = subject[b]
                                /\ (b \in blind' <=> b \in blind),
         pc'[a] # "create"
  PROVE  /\ RulesKnown' /\ FreeRowsUnsigned' /\ FirstForItsAuthor'
         /\ OnePolicyPerAuthor'
<1> USE DEF ManagementInv, policyVars
<1>1. RulesKnown' /\ FreeRowsUnsigned' /\ OnePolicyPerAuthor'
  BY DEF RulesKnown, FreeRowsUnsigned, OnePolicyPerAuthor
<1>2. FirstForItsAuthor'
  BY DEF FirstForItsAuthor
<1> QED BY <1>1, <1>2

(* A request about an endpoint comes in.                                   *)
LEMMA AskStep ==
  ASSUME ManagementInv, NEW a \in Admin, NEW e \in Endpoint, NEW s \in Status,
         Define(a, e) \/ Change(a, e, s)
  PROVE  ManagementInv'
<1> USE EndpointsAssumption
    DEF Define, Change, Request, Fault, endpointVars
<1>1. TypeOK'
  BY DEF ManagementInv, TypeOK, policyVars, Status
<1>2. RequestsKnown'
  BY DEF ManagementInv, TypeOK, RequestsKnown, Status
<1>3. OneEventDue' /\ AnnouncedAgrees'
  BY DEF ManagementInv, TypeOK, OneEventDue, AnnouncedAgrees, Announcing
<1>4. pc'[a] # "create"
  BY DEF ManagementInv, TypeOK
<1>5. \A b \in Admin \ {a} : /\ pc'[b] = pc[b] /\ subject'[b] = subject[b]
                             /\ (b \in blind' <=> b \in blind)
  BY DEF ManagementInv, TypeOK
<1> QED BY <1>1, <1>2, <1>3, <1>4, <1>5, PoliciesKept DEF ManagementInv

(* A write of a row that is going to be announced.                         *)
LEMMA WriteStep ==
  ASSUME ManagementInv, NEW a \in Admin, Insert(a) \/ Update(a)
  PROVE  ManagementInv'
<1> USE EndpointsAssumption DEF Insert, Update, WriteStatus, Goto
<1>1. TypeOK'
  BY DEF ManagementInv, TypeOK, RequestsKnown, policyVars, Status
<1>2. RequestsKnown'
  BY DEF ManagementInv, TypeOK, RequestsKnown
<1> DEFINE e == subject[a]
<1>3. e \in Endpoint /\ pc[a] # "publish" /\ change[a] \in Status
  BY DEF ManagementInv, RequestsKnown
<1>4. status' = [status EXCEPT ![e] = change[a]]
  BY DEF ManagementInv, RequestsKnown
<1>5. /\ Announcing(e)' = Announcing(e) \union {a}
      /\ \A f \in Endpoint \ {e} : Announcing(f)' = Announcing(f)
  BY <1>3 DEF ManagementInv, TypeOK, Announcing
<1>6. OneEventDue'
  <2> SUFFICES ASSUME NEW b \in Admin, pc'[b] = "publish",
                      subject[b] \notin crossed' \union silent'
               PROVE  /\ change[b] = status'[subject[b]]
                      /\ Announcing(subject[b])' = {b}
    BY DEF OneEventDue
  <2>1. CASE b = a
    BY <2>1, <1>3, <1>4, <1>5 DEF ManagementInv, TypeOK
  <2>2. CASE b # a /\ subject[b] = e
    <3>1. b \in Announcing(e)
      BY <2>2 DEF ManagementInv, TypeOK, Announcing
    <3> QED BY <3>1, <2>2
  <2>3. CASE b # a /\ subject[b] # e
    <3>1. pc[b] = "publish" /\ subject[b] \in Endpoint
          /\ subject[b] \notin crossed \union silent
      BY <2>3 DEF ManagementInv, TypeOK, RequestsKnown
    <3> QED BY <3>1, <2>3, <1>3, <1>4, <1>5 DEF ManagementInv, TypeOK, OneEventDue
  <2> QED BY <2>1, <2>2, <2>3
<1>7. AnnouncedAgrees'
  <2> SUFFICES ASSUME NEW f \in Endpoint, Announcing(f)' = {},
                      f \notin crossed' \union silent'
               PROVE  announced'[f] = status'[f]
    BY DEF AnnouncedAgrees
  <2>1. f # e
    BY <1>3, <1>5
  <2>2. announced'[f] = announced[f] /\ status'[f] = status[f]
    BY <2>1, <1>3, <1>4 DEF ManagementInv, TypeOK
  <2>3. Announcing(f) = {} /\ f \notin crossed \union silent
    BY <2>1, <1>3, <1>5
  <2> QED BY <2>2, <2>3 DEF ManagementInv, AnnouncedAgrees
<1>8. pc'[a] # "create"
  BY DEF ManagementInv, TypeOK
<1>9. \A b \in Admin \ {a} : /\ pc'[b] = pc[b] /\ subject'[b] = subject[b]
                             /\ (b \in blind' <=> b \in blind)
  BY DEF ManagementInv, TypeOK
<1> QED BY <1>1, <1>2, <1>6, <1>7, <1>8, <1>9, PoliciesKept DEF ManagementInv

(* A change ends without an event: refused, failed, or failed to answer.   *)
LEMMA WriteFailsStep ==
  ASSUME ManagementInv, NEW a \in Admin, InsertFails(a) \/ UpdateFails(a)
  PROVE  ManagementInv'
<1> USE EndpointsAssumption DEF InsertFails, UpdateFails, WriteUnanswered, Done, Fault
<1> DEFINE e == subject[a]
<1>1. e \in Endpoint /\ pc[a] # "publish" /\ change[a] \in Status
  BY DEF ManagementInv, RequestsKnown
<1>2. \/ UNCHANGED <<status, silent>>
      \/ /\ status' = [status EXCEPT ![e] = change[a]]
         /\ silent' = silent \union {e}
  BY DEF ManagementInv, RequestsKnown
<1>3. TypeOK'
  BY <1>1, <1>2 DEF ManagementInv, TypeOK, policyVars
<1>4. RequestsKnown'
  BY DEF ManagementInv, TypeOK, RequestsKnown
<1>5. \A f \in Endpoint : Announcing(f)' = Announcing(f)
  BY <1>1 DEF ManagementInv, TypeOK, Announcing
<1>6. OneEventDue'
  <2> SUFFICES ASSUME NEW b \in Admin, pc'[b] = "publish",
                      subject'[b] \notin crossed' \union silent'
               PROVE  change'[b] = status'[subject'[b]] /\ Announcing(subject[b])' = {b}
    BY DEF OneEventDue
  <2>1. b # a /\ pc[b] = "publish" /\ subject'[b] = subject[b] /\ change'[b] = change[b]
    BY DEF ManagementInv, TypeOK
  <2>2. subject[b] \in Endpoint /\ subject[b] \notin crossed \union silent
    BY <2>1, <1>2 DEF ManagementInv, RequestsKnown
  <2>3. status'[subject[b]] = status[subject[b]]
    BY <2>1, <2>2, <1>1, <1>2 DEF ManagementInv, TypeOK
  <2>4. Announcing(subject[b]) = {b} /\ change[b] = status[subject[b]]
    BY <2>1, <2>2 DEF ManagementInv, OneEventDue
  <2>5. Announcing(subject[b])' = Announcing(subject[b])
    BY <2>1, <2>2, <1>1 DEF ManagementInv, TypeOK, Announcing
  <2> QED BY <2>1, <2>3, <2>4, <2>5
<1>7. AnnouncedAgrees'
  BY <1>1, <1>2, <1>5 DEF ManagementInv, TypeOK, AnnouncedAgrees
<1>8. pc'[a] # "create"
  BY DEF ManagementInv, TypeOK
<1>9. \A b \in Admin \ {a} : /\ pc'[b] = pc[b] /\ subject'[b] = subject[b]
                             /\ (b \in blind' <=> b \in blind)
  BY DEF ManagementInv, TypeOK
<1> QED BY <1>3, <1>4, <1>6, <1>7, <1>8, <1>9, PoliciesKept DEF ManagementInv

(* The event of a change is published, or lost.                            *)
LEMMA PublishStep ==
  ASSUME ManagementInv, NEW a \in Admin, Publish(a) \/ PublishFails(a)
  PROVE  ManagementInv'
<1> USE EndpointsAssumption DEF Publish, PublishFails, Done, Fault
<1> DEFINE e == subject[a]
<1>1. e \in Endpoint /\ pc[a] = "publish" /\ change[a] \in Status
  BY DEF ManagementInv, RequestsKnown
<1>2. TypeOK'
  BY <1>1 DEF ManagementInv, TypeOK, policyVars
<1>3. RequestsKnown'
  BY DEF ManagementInv, TypeOK, RequestsKnown
<1>4. \A f \in Endpoint \ {e} : Announcing(f)' = Announcing(f)
  BY <1>1 DEF ManagementInv, TypeOK, Announcing
<1>5. a \in Announcing(e)
  BY <1>1 DEF Announcing
<1>6. OneEventDue'
  <2> SUFFICES ASSUME NEW b \in Admin, pc'[b] = "publish",
                      subject'[b] \notin crossed' \union silent'
               PROVE  change'[b] = status'[subject'[b]] /\ Announcing(subject[b])' = {b}
    BY DEF OneEventDue
  <2>1. b # a /\ pc[b] = "publish" /\ subject'[b] = subject[b] /\ change'[b] = change[b]
    BY DEF ManagementInv, TypeOK
  <2>2. subject[b] \in Endpoint /\ subject[b] \notin crossed \union silent
    BY <2>1 DEF ManagementInv, RequestsKnown
  <2>3. Announcing(subject[b]) = {b} /\ change[b] = status[subject[b]]
    BY <2>1, <2>2 DEF ManagementInv, OneEventDue
  <2>4. subject[b] # e
    BY <2>1, <2>3, <1>5
  <2>5. Announcing(subject[b])' = Announcing(subject[b])
    BY <2>1, <2>2, <2>4, <1>1 DEF ManagementInv, TypeOK, Announcing
  <2> QED BY <2>1, <2>3, <2>5
<1>7. AnnouncedAgrees'
  <2> SUFFICES ASSUME NEW f \in Endpoint, Announcing(f)' = {},
                      f \notin crossed' \union silent'
               PROVE  announced'[f] = status'[f]
    BY DEF AnnouncedAgrees
  <2>1. CASE f = e
    BY <2>1, <1>1 DEF ManagementInv, TypeOK, OneEventDue
  <2>2. CASE f # e
    BY <2>2, <1>1, <1>4 DEF ManagementInv, TypeOK, AnnouncedAgrees
  <2> QED BY <2>1, <2>2
<1>8. pc'[a] # "create"
  BY DEF ManagementInv, TypeOK
<1>9. \A b \in Admin \ {a} : /\ pc'[b] = pc[b] /\ subject'[b] = subject[b]
                             /\ (b \in blind' <=> b \in blind)
  BY DEF ManagementInv, TypeOK
<1> QED BY <1>2, <1>3, <1>6, <1>7, <1>8, <1>9, PoliciesKept DEF ManagementInv

(* A request about a policy leaves endpoints and events alone.             *)
LEMMA EventsKept ==
  ASSUME ManagementInv, NEW a \in Admin, UNCHANGED endpointVars,
         pc[a] # "publish", pc'[a] # "publish",
         \A b \in Admin \ {a} : /\ pc'[b] = pc[b] /\ subject'[b] = subject[b]
                                /\ change'[b] = change[b]
  PROVE  OneEventDue' /\ AnnouncedAgrees'
<1>1. \A f \in Endpoint : Announcing(f)' = Announcing(f)
  BY DEF Announcing
<1>2. OneEventDue'
  BY <1>1 DEF ManagementInv, endpointVars, OneEventDue, RequestsKnown
<1>3. AnnouncedAgrees'
  BY <1>1 DEF ManagementInv, endpointVars, AnnouncedAgrees
<1> QED BY <1>2, <1>3

(* The lookup of a policy.                                                 *)
LEMMA PutStep ==
  ASSUME ManagementInv, NEW a \in Admin, NEW e \in Endpoint, NEW c \in Rule,
         PutPolicy(a, e, c)
  PROVE  ManagementInv'
<1> USE EndpointsAssumption DEF PutPolicy, Request, PoliciesOf, Fault, policyVars
<1>1. TypeOK'
  BY DEF ManagementInv, TypeOK, endpointVars
<1>2. RequestsKnown'
  BY DEF ManagementInv, TypeOK, RequestsKnown
<1>3. /\ pc[a] # "publish" /\ pc'[a] # "publish"
      /\ \A b \in Admin \ {a} : /\ pc'[b] = pc[b] /\ subject'[b] = subject[b]
                                /\ change'[b] = change[b]
  BY DEF ManagementInv, TypeOK
<1>4. OneEventDue' /\ AnnouncedAgrees'
  BY <1>3, EventsKept DEF endpointVars
<1>5. RulesKnown' /\ FreeRowsUnsigned' /\ OnePolicyPerAuthor'
  BY DEF ManagementInv, RulesKnown, FreeRowsUnsigned, OnePolicyPerAuthor
<1>6. FirstForItsAuthor'
  BY DEF ManagementInv, TypeOK, FirstForItsAuthor
<1> QED BY <1>1, <1>2, <1>4, <1>5, <1>6 DEF ManagementInv

(* The write of a policy.                                                  *)
LEMMA UpdatePolicyStep ==
  ASSUME ManagementInv, NEW a \in Admin, UpdatePolicy(a) \/ CreatePolicyFails(a)
  PROVE  ManagementInv'
<1> USE EndpointsAssumption DEF UpdatePolicy, CreatePolicyFails, Done, Fault
<1>1. TypeOK'
  BY DEF ManagementInv, TypeOK, RequestsKnown, endpointVars, policyVars
<1>2. RequestsKnown'
  BY DEF ManagementInv, TypeOK, RequestsKnown
<1>3. /\ pc[a] # "publish" /\ pc'[a] # "publish"
      /\ \A b \in Admin \ {a} : /\ pc'[b] = pc[b] /\ subject'[b] = subject[b]
                                /\ change'[b] = change[b]
  BY DEF ManagementInv, TypeOK
<1>4. OneEventDue' /\ AnnouncedAgrees'
  BY <1>3, EventsKept DEF endpointVars
<1>5. RulesKnown'
  BY DEF ManagementInv, TypeOK, RequestsKnown, RulesKnown, policyVars
<1>6. FreeRowsUnsigned' /\ OnePolicyPerAuthor' /\ FirstForItsAuthor'
  BY DEF ManagementInv, TypeOK, FreeRowsUnsigned, OnePolicyPerAuthor,
         FirstForItsAuthor, policyVars
<1> QED BY <1>1, <1>2, <1>4, <1>5, <1>6 DEF ManagementInv

(* The insertion of a policy.                                              *)
LEMMA CreatePolicyStep ==
  ASSUME ManagementInv, NEW a \in Admin, CreatePolicy(a)
  PROVE  ManagementInv'
<1> USE EndpointsAssumption DEF CreatePolicy, Done, Fault
<1>1. PICK p \in Policy :
        /\ policyOf[p] = None
        /\ policyOf' = [policyOf EXCEPT ![p] = subject[a]]
        /\ rule' = [rule EXCEPT ![p] = change[a]]
        /\ author' = IF a \in blind THEN author ELSE [author EXCEPT ![p] = a]
  OBVIOUS
<1>2. pc[a] = "create" /\ subject[a] \in Endpoint /\ change[a] \in Rule
  BY DEF ManagementInv, RequestsKnown
<1>3. TypeOK'
  BY <1>1, <1>2 DEF ManagementInv, TypeOK, endpointVars
<1>4. RequestsKnown'
  BY DEF ManagementInv, TypeOK, RequestsKnown
<1>5. /\ pc[a] # "publish" /\ pc'[a] # "publish"
      /\ \A b \in Admin \ {a} : /\ pc'[b] = pc[b] /\ subject'[b] = subject[b]
                                /\ change'[b] = change[b]
  BY <1>2 DEF ManagementInv, TypeOK
<1>6. OneEventDue' /\ AnnouncedAgrees'
  BY <1>5, EventsKept DEF endpointVars
<1>7. RulesKnown' /\ FreeRowsUnsigned'
  BY <1>1, <1>2 DEF ManagementInv, TypeOK, RulesKnown, FreeRowsUnsigned
<1>8. author[p] = None /\ author'[p] \in {None, a}
      /\ (author'[p] = a => a \notin blind)
  BY <1>1 DEF ManagementInv, TypeOK, FreeRowsUnsigned
<1>9. \A q \in Policy \ {p} : policyOf'[q] = policyOf[q] /\ author'[q] = author[q]
  BY <1>1 DEF ManagementInv, TypeOK
<1>10. FirstForItsAuthor'
  <2> SUFFICES ASSUME NEW b \in Admin, NEW q \in Policy, pc'[b] = "create",
                      b \notin blind', policyOf'[q] = subject'[b]
               PROVE  author'[q] # b
    BY DEF FirstForItsAuthor
  <2>1. b # a /\ pc[b] = "create" /\ b \notin blind /\ subject'[b] = subject[b]
    BY DEF ManagementInv, TypeOK
  <2> QED BY <2>1, <1>8, <1>9 DEF ManagementInv, FirstForItsAuthor
<1>11. OnePolicyPerAuthor'
  <2> SUFFICES ASSUME NEW q \in Policy, NEW s \in Policy, q # s,
                      policyOf'[q] = policyOf'[s], author'[q] # None,
                      author'[q] = author'[s]
               PROVE  FALSE
    BY DEF OnePolicyPerAuthor
  <2>1. policyOf'[p] = subject[a]
    BY <1>1 DEF ManagementInv, TypeOK
  <2>2. \A t \in Policy \ {p} :
          policyOf[t] = subject[a] /\ a \notin blind => author[t] # a
    BY <1>2 DEF ManagementInv, FirstForItsAuthor
  <2>3. CASE q = p \/ s = p
    BY <2>1, <2>2, <2>3, <1>8, <1>9
  <2>4. CASE q # p /\ s # p
    BY <2>4, <1>9 DEF ManagementInv, OnePolicyPerAuthor
  <2> QED BY <2>3, <2>4
<1> QED BY <1>3, <1>4, <1>6, <1>7, <1>10, <1>11 DEF ManagementInv

LEMMA ManagementStep ==
  ManagementInv /\ [ManagementNext]_managementVars => ManagementInv'
<1> SUFFICES ASSUME ManagementInv, [ManagementNext]_managementVars
             PROVE  ManagementInv'
  OBVIOUS
<1>1. CASE UNCHANGED managementVars
  BY <1>1 DEF managementVars, ManagementInv, TypeOK, RequestsKnown, RulesKnown,
      OneEventDue, AnnouncedAgrees, Announcing, FreeRowsUnsigned,
      FirstForItsAuthor, OnePolicyPerAuthor
<1>2. ASSUME NEW a \in Admin, ChangeNext(a)
      PROVE  ManagementInv'
  BY <1>2, AskStep, WriteStep, WriteFailsStep, PublishStep DEF ChangeNext, Status
<1>3. ASSUME NEW a \in Admin, PolicyNext(a)
      PROVE  ManagementInv'
  BY <1>3, PutStep, UpdatePolicyStep, CreatePolicyStep DEF PolicyNext
<1> QED BY <1>1, <1>2, <1>3 DEF ManagementNext

(* Variables of the management keep their types.                           *)
THEOREM TypeCorrect == Spec => []TypeOK
<1>1. ManagementInv => TypeOK
  BY DEF ManagementInv
<1> QED BY <1>1, InitManagement, ManagementStep, PTL DEF Spec

(* The last event of an endpoint tells its status, unless its writes       *)
(* overlapped or an event of it was lost.                                  *)
THEOREM EventsAgree == Spec => []AnnouncedAgrees
<1>1. ManagementInv => AnnouncedAgrees
  BY DEF ManagementInv
<1> QED BY <1>1, InitManagement, ManagementStep, PTL DEF Spec

(* Policies of one endpoint that were inserted by requests that had found  *)
(* none were inserted by different requests.                               *)
THEOREM PoliciesBounded == Spec => []OnePolicyPerAuthor
<1>1. ManagementInv => OnePolicyPerAuthor
  BY DEF ManagementInv
<1> QED BY <1>1, InitManagement, ManagementStep, PTL DEF Spec

----------------------------------------------------------------------------
(* The pipeline.                                                           *)
LEMMA InitPipeline == GatewayInit => PipelineInv
<1> SUFFICES ASSUME GatewayInit
             PROVE  PipelineInv
  OBVIOUS
<1>1. ManagementInv
  BY InitManagement DEF GatewayInit
<1>2. GatewayTypeOK
  BY <1>1 DEF ManagementInv, GatewayInit, GatewayTypeOK
<1>3. TargetsKnown /\ ActiveBehind /\ PolicyBehind
  BY DEF GatewayInit, TargetsKnown, ActiveBehind, PolicyBehind, Passing
<1>4. AdmittedWereCounted /\ WindowWithinLimit /\ LimitLifted
  BY DEF GatewayInit, AdmittedWereCounted, WindowWithinLimit, LimitLifted
<1> QED BY <1>1, <1>2, <1>3, <1>4 DEF PipelineInv

(* A call that fails changes only the number of failures.                  *)
LEMMA ManagementKept ==
  ASSUME ManagementInv,
         \/ UNCHANGED managementVars
         \/ Fault /\ UNCHANGED <<endpointVars, policyVars, requestVars>>
  PROVE  ManagementInv'
<1>1. UNCHANGED <<endpointVars, policyVars, requestVars>>
  BY DEF managementVars, endpointVars, policyVars, requestVars
<1>2. faults' \in 0..MaxFaults
  BY EndpointsAssumption DEF ManagementInv, TypeOK, Fault, managementVars
<1>3. TypeOK'
  BY <1>1, <1>2 DEF ManagementInv, TypeOK, endpointVars, policyVars, requestVars
<1> QED BY <1>1, <1>3 DEF endpointVars, policyVars, requestVars, ManagementInv,
      RequestsKnown, RulesKnown, OneEventDue, AnnouncedAgrees, Announcing,
      FreeRowsUnsigned, FirstForItsAuthor, OnePolicyPerAuthor

(* What has been observed stays, and what is now so is observed.           *)
LEMMA History ==
  ASSUME Observe, NEW r \in Caller, at'[r] # "refused"
  PROVE  /\ r \in wasActive => r \in wasActive'
         /\ r \in wasOpen => r \in wasOpen'
         /\ at'[r] \in {"lookup"} \union Passing /\ status'[target'[r]] = "active"
               => r \in wasActive'
         /\ at'[r] \in {"lookup"} \union Passing /\ LetsThrough(r)'
               => r \in wasOpen'
  BY DEF Observe, UnderWay, IsActive

LEMMA HistoryTyped ==
  ASSUME Observe, wasActive \subseteq Caller, wasOpen \subseteq Caller
  PROVE  wasActive' \subseteq Caller /\ wasOpen' \subseteq Caller
  BY DEF Observe, UnderWay

Behind(q) ==
    /\ at[q] \in Passing \union {"served"} => q \in wasActive
    /\ at[q] = "permit" /\ Required(q) \in Grants[q] \union {None}
          => q \in wasOpen \union unread
    /\ at[q] \in {"limit", "backend", "served"} => q \in wasOpen \union unread

(* A request that has not been answered is not unseen by a step of another.*)
LEMMA OthersKept ==
  ASSUME PipelineInv, Observe, NEW q \in Caller,
         at'[q] = at[q], policy'[q] = policy[q],
         q \in unread => q \in unread'
  PROVE  Behind(q)'
<1>1. CASE at'[q] = "refused"
  BY <1>1 DEF Behind, Passing
<1>2. CASE at'[q] # "refused"
  BY <1>2, History
  DEF PipelineInv, ActiveBehind, PolicyBehind, Behind, Required, Passing
<1> QED BY <1>1, <1>2

(* A step of a request that counts nothing.                                *)
LEMMA RateKept ==
  ASSUME PipelineInv, UNCHANGED <<rateVars, hasRedis>>
  PROVE  AdmittedWereCounted' /\ WindowWithinLimit' /\ LimitLifted'
  BY DEF PipelineInv, rateVars, AdmittedWereCounted, WindowWithinLimit, LimitLifted

Looking(r) ==
    \/ \E e \in Endpoint : Arrive(r, e)
    \/ Lookup(r) \/ LookupPasses(r) \/ LookupGone(r) \/ ReadPolicy(r)

Going(r) ==
    Permit(r) \/ Forbid(r) \/ Serve(r) \/ ServeFails(r)

LEMMA LookingStep ==
  ASSUME PipelineInv, NEW r \in Caller, Looking(r), Observe, UNCHANGED hasRedis
  PROVE  PipelineInv'
<1> USE GatewayAssumption DEF Looking, Arrive, Lookup, LookupPasses, LookupGone,
        ReadPolicy, Step, Answered
<1>1. ManagementInv'
  BY ManagementKept DEF PipelineInv
<1>2. UNCHANGED rateVars
  BY DEF rateVars
<1>3. AdmittedWereCounted' /\ WindowWithinLimit' /\ LimitLifted'
  BY <1>2, RateKept
<1>4. GatewayTypeOK'
  <2>1. policy' \in [Caller -> Rule \union {None}]
    <3>1. ASSUME NEW p \in PoliciesOf(target[r]), ReadPolicy(r)
          PROVE  rule[p] \in Rule
      BY <3>1, EndpointsAssumption
      DEF PipelineInv, ManagementInv, RulesKnown, PoliciesOf, TargetsKnown
    <3> QED BY <3>1 DEF PipelineInv, GatewayTypeOK
  <2>2. /\ at' \in [Caller -> {"idle", "lookup"} \union Passing \union Ended]
        /\ target' \in [Caller -> Endpoint \union {None}]
        /\ unread' \subseteq Caller
    BY DEF PipelineInv, GatewayTypeOK, Passing, Ended
  <2> QED BY <1>1, <1>2, <2>1, <2>2, HistoryTyped
          DEF PipelineInv, ManagementInv, GatewayTypeOK, rateVars
<1>5. TargetsKnown'
  BY DEF PipelineInv, GatewayTypeOK, TargetsKnown
<1>6. \A q \in Caller \ {r} : /\ at'[q] = at[q] /\ policy'[q] = policy[q]
                              /\ (q \in unread => q \in unread')
  BY DEF PipelineInv, GatewayTypeOK
<1>7. at'[r] \in Passing \union {"served"} => r \in wasActive'
  <2>1. CASE Lookup(r)
    <3>1. at'[r] = "policy" /\ status'[target'[r]] = "active"
      BY <2>1 DEF PipelineInv, GatewayTypeOK, managementVars
    <3> QED BY <3>1, History DEF Passing
  <2>2. CASE ReadPolicy(r)
    <3>1. at'[r] = "permit" /\ r \in wasActive
      BY <2>2 DEF PipelineInv, GatewayTypeOK, ActiveBehind, Passing
    <3> QED BY <3>1, History
  <2>3. CASE (\E e \in Endpoint : Arrive(r, e)) \/ LookupPasses(r) \/ LookupGone(r)
    <3>1. at'[r] \in {"lookup", "refused"}
      BY <2>3 DEF PipelineInv, GatewayTypeOK
    <3> QED BY <3>1 DEF Passing
  <2> QED BY <2>1, <2>2, <2>3
<1>8. /\ at'[r] = "permit" /\ Required(r)' \in Grants[r] \union {None}
           => r \in wasOpen' \union unread'
      /\ at'[r] \notin {"limit", "backend", "served"}
  <2>1. at'[r] \notin {"limit", "backend", "served"}
    BY DEF PipelineInv, GatewayTypeOK
  <2> SUFFICES ASSUME at'[r] = "permit", Required(r)' \in Grants[r] \union {None},
                      r \notin unread'
               PROVE  r \in wasOpen'
    BY <2>1
  <2>2. ReadPolicy(r)
    BY DEF PipelineInv, GatewayTypeOK
  <2>3. UNCHANGED managementVars /\ target' = target
    BY <2>2 DEF PipelineInv, GatewayTypeOK
  <2>4. LetsThrough(r)'
    <3>1. CASE PoliciesOf(target[r]) = {}
      BY <3>1, <2>3 DEF LetsThrough, PoliciesOf, managementVars
    <3>2. CASE PoliciesOf(target[r]) # {}
      <4>1. PICK p \in PoliciesOf(target[r]) : policy' = [policy EXCEPT ![r] = rule[p]]
        BY <2>2, <3>2 DEF PipelineInv, GatewayTypeOK
      <4>2. policy'[r] = rule[p] /\ rule[p] \in Rule /\ p \in Policy
        BY <2>2, <4>1, EndpointsAssumption DEF PipelineInv, GatewayTypeOK,
           TargetsKnown, ManagementInv, RulesKnown, PoliciesOf
      <4>3. RequiredPermission[rule[p]] \in Grants[r] \union {None}
        BY <4>2, EndpointsAssumption DEF Required
      <4> QED BY <4>1, <4>3, <2>3 DEF LetsThrough, PoliciesOf, managementVars
    <3> QED BY <3>1, <3>2
  <2> QED BY <2>4, History DEF Passing
<1>9. ActiveBehind' /\ PolicyBehind'
  <2> SUFFICES ASSUME NEW q \in Caller
               PROVE  Behind(q)'
    BY DEF Behind, ActiveBehind, PolicyBehind
  <2>1. CASE q = r
    BY <2>1, <1>7, <1>8, History DEF Behind, Passing
  <2>2. CASE q # r
    BY <2>2, <1>6, OthersKept
  <2> QED BY <2>1, <2>2
<1> QED BY <1>1, <1>3, <1>4, <1>5, <1>9 DEF PipelineInv

LEMMA GoingStep ==
  ASSUME PipelineInv, NEW r \in Caller, Going(r), Observe, UNCHANGED hasRedis
  PROVE  PipelineInv'
<1> USE DEF Going, Permit, Forbid, Serve, ServeFails, Step, Answered
<1>1. ManagementInv'
  BY ManagementKept DEF PipelineInv
<1>2. UNCHANGED rateVars
  BY DEF rateVars
<1>3. AdmittedWereCounted' /\ WindowWithinLimit' /\ LimitLifted'
  BY <1>2, RateKept
<1>4. GatewayTypeOK'
  BY <1>1, <1>2, HistoryTyped
  DEF PipelineInv, ManagementInv, GatewayTypeOK, rateVars, Passing, Ended
<1>5. TargetsKnown'
  BY DEF PipelineInv, GatewayTypeOK, TargetsKnown
<1>6. \A q \in Caller \ {r} : /\ at'[q] = at[q] /\ policy'[q] = policy[q]
                              /\ (q \in unread => q \in unread')
  BY DEF PipelineInv, GatewayTypeOK
<1>7. at'[r] # "refused" => r \in wasActive
  BY DEF PipelineInv, GatewayTypeOK, ActiveBehind, Passing
<1>8. at'[r] # "refused" => r \in wasOpen \union unread
  BY DEF PipelineInv, GatewayTypeOK, PolicyBehind
<1>9. at'[r] # "permit"
  BY DEF PipelineInv, GatewayTypeOK
<1>10. ActiveBehind' /\ PolicyBehind'
  <2> SUFFICES ASSUME NEW q \in Caller
               PROVE  Behind(q)'
    BY DEF Behind, ActiveBehind, PolicyBehind
  <2>1. CASE q = r
    BY <2>1, <1>7, <1>8, <1>9, History DEF Behind, Passing
  <2>2. CASE q # r
    BY <2>2, <1>6, OthersKept
  <2> QED BY <2>1, <2>2
<1> QED BY <1>1, <1>3, <1>4, <1>5, <1>10 DEF PipelineInv

(* The script of checkRateLimit, or no call of it.                         *)
LEMMA CountingStep ==
  ASSUME PipelineInv, NEW r \in Caller, Unlimited(r) \/ Admit(r) \/ Refuse(r), Observe,
         UNCHANGED hasRedis
  PROVE  PipelineInv'
<1> USE DEF Unlimited, Admit, Refuse, Step, Answered, CountUp
<1> DEFINE e == target[r]
<1>1. ManagementInv'
  BY ManagementKept DEF PipelineInv
<1>2. /\ e \in Endpoint /\ Limit(r) \in Nat
      /\ count \in [Endpoint -> Nat] /\ admitted \in [Endpoint -> Nat]
      /\ cap \in [Endpoint -> Nat] /\ hasRedis \in BOOLEAN
  BY GatewayAssumption DEF PipelineInv, GatewayTypeOK, TargetsKnown, Limit
<1>3. \/ UNCHANGED rateVars
      \/ /\ count' = [count EXCEPT ![e] = @ + 1]
         /\ expires' = IF count[e] = 0 THEN expires \union {e} ELSE expires
         /\ \/ UNCHANGED <<admitted, cap>>
            \/ /\ count[e] < Limit(r)
               /\ admitted' = [admitted EXCEPT ![e] = @ + 1]
               /\ cap' = [cap EXCEPT ![e] = IF @ < Limit(r) THEN Limit(r) ELSE @]
      \/ /\ ~hasRedis /\ UNCHANGED <<count, expires, cap>>
         /\ admitted' = [admitted EXCEPT ![e] = @ + 1]
  <2>1. CASE Admit(r) \/ Refuse(r)
    BY <2>1 DEF rateVars
  <2>2. CASE Unlimited(r)
    BY <2>2, <1>2 DEF rateVars, Limited
  <2> QED BY <2>1, <2>2
<1>4. AdmittedWereCounted' /\ WindowWithinLimit' /\ LimitLifted'
  <2>1. CASE UNCHANGED rateVars
    BY <2>1, RateKept
  <2>2. CASE ~ UNCHANGED rateVars
    BY <2>2, <1>2, <1>3
    DEF PipelineInv, AdmittedWereCounted, WindowWithinLimit, LimitLifted
  <2> QED BY <2>1, <2>2
<1>5. GatewayTypeOK'
  <2>1. /\ count' \in [Endpoint -> Nat] /\ admitted' \in [Endpoint -> Nat]
        /\ cap' \in [Endpoint -> Nat] /\ expires' \subseteq Endpoint
    BY <1>2, <1>3 DEF PipelineInv, GatewayTypeOK, rateVars
  <2> QED BY <1>1, <2>1, HistoryTyped
          DEF PipelineInv, ManagementInv, GatewayTypeOK, Passing, Ended
<1>6. TargetsKnown'
  BY DEF PipelineInv, GatewayTypeOK, TargetsKnown
<1>7. \A q \in Caller \ {r} : /\ at'[q] = at[q] /\ policy'[q] = policy[q]
                              /\ (q \in unread => q \in unread')
  BY DEF PipelineInv, GatewayTypeOK
<1>8. at'[r] \in {"backend", "refused"} /\ r \in wasActive /\ r \in wasOpen \union unread
  BY DEF PipelineInv, GatewayTypeOK, ActiveBehind, PolicyBehind, Passing
<1>9. ActiveBehind' /\ PolicyBehind'
  <2> SUFFICES ASSUME NEW q \in Caller
               PROVE  Behind(q)'
    BY DEF Behind, ActiveBehind, PolicyBehind
  <2>1. CASE q = r
    BY <2>1, <1>8, History DEF Behind, Passing
  <2>2. CASE q # r
    BY <2>2, <1>7, OthersKept
  <2> QED BY <2>1, <2>2
<1> QED BY <1>1, <1>4, <1>5, <1>6, <1>9 DEF PipelineInv

(* Steps that are not a request's: a window ends, rows are managed.        *)
LEMMA SurroundingStep ==
  ASSUME PipelineInv, Observe,
         Manage \/ (\E e \in Endpoint : WindowEnds(e)) \/ UNCHANGED vars,
         UNCHANGED hasRedis
  PROVE  PipelineInv'
<1>1. ManagementInv'
  <2>1. [ManagementNext]_managementVars
    BY DEF Manage, WindowEnds, vars
  <2> QED BY <2>1, ManagementStep DEF PipelineInv
<1>2. UNCHANGED <<at, target, policy, unread>>
  BY DEF Manage, WindowEnds, vars, gatewayVars
<1>3. /\ AdmittedWereCounted' /\ WindowWithinLimit' /\ LimitLifted'
      /\ count' \in [Endpoint -> Nat] /\ admitted' \in [Endpoint -> Nat]
      /\ cap' \in [Endpoint -> Nat] /\ expires' \subseteq Endpoint
  <2>1. CASE \E e \in Endpoint : WindowEnds(e)
    BY <2>1 DEF WindowEnds, PipelineInv, GatewayTypeOK, AdmittedWereCounted,
                WindowWithinLimit, LimitLifted
  <2>2. CASE UNCHANGED rateVars
    BY <2>2, RateKept DEF PipelineInv, GatewayTypeOK, rateVars
  <2> QED BY <2>1, <2>2 DEF Manage, vars, gatewayVars, rateVars
<1>4. GatewayTypeOK'
  BY <1>1, <1>2, <1>3, HistoryTyped DEF PipelineInv, ManagementInv, GatewayTypeOK
<1>5. TargetsKnown'
  BY <1>2 DEF PipelineInv, TargetsKnown
<1>6. \A q \in Caller : Behind(q)'
  BY <1>2, OthersKept
<1>7. ActiveBehind' /\ PolicyBehind'
  BY <1>6 DEF Behind, ActiveBehind, PolicyBehind
<1> QED BY <1>1, <1>3, <1>4, <1>5, <1>7 DEF PipelineInv

LEMMA PipelineStep == PipelineInv /\ [Next]_vars => PipelineInv'
<1> SUFFICES ASSUME PipelineInv, [Next]_vars
             PROVE  PipelineInv'
  OBVIOUS
<1>1. CASE UNCHANGED vars
  BY <1>1 DEF vars, managementVars, gatewayVars, PipelineInv, GatewayTypeOK, TypeOK,
      TargetsKnown, ActiveBehind, PolicyBehind, Required, AdmittedWereCounted,
      WindowWithinLimit, LimitLifted, ManagementInv, RequestsKnown, RulesKnown,
      OneEventDue, AnnouncedAgrees, Announcing, FreeRowsUnsigned,
      FirstForItsAuthor, OnePolicyPerAuthor
<1>2. CASE Manage /\ Observe /\ UNCHANGED hasRedis
  BY <1>2, SurroundingStep
<1>3. CASE PipelineNext /\ Observe /\ UNCHANGED hasRedis
  <2>1. ASSUME NEW r \in Caller, Enforce(r) \/ \E e \in Endpoint : Arrive(r, e)
        PROVE  PipelineInv'
    <3>1. Looking(r) \/ Going(r) \/ Unlimited(r) \/ Admit(r) \/ Refuse(r)
      BY <2>1 DEF Enforce, Looking, Going
    <3> QED BY <3>1, <1>3, LookingStep, GoingStep, CountingStep
  <2>2. CASE \E e \in Endpoint : WindowEnds(e)
    BY <2>2, <1>3, SurroundingStep
  <2> QED BY <1>3, <2>1, <2>2 DEF PipelineNext
<1> QED BY <1>1, <1>2, <1>3 DEF Next

LEMMA PipelineInvariant == GatewaySpec => []PipelineInv
  BY InitPipeline, PipelineStep, PTL DEF GatewaySpec

(* The variables of the pipeline keep their types.                         *)
THEOREM PipelineTypeCorrect == GatewaySpec => []GatewayTypeOK
<1>1. PipelineInv => GatewayTypeOK
  BY DEF PipelineInv
<1> QED BY <1>1, PipelineInvariant, PTL

(* A request is served only if its endpoint was active since it arrived.   *)
THEOREM ServesActive == GatewaySpec => []ServedWhileActive
<1>1. PipelineInv => ServedWhileActive
  BY DEF PipelineInv, ActiveBehind, ServedWhileActive
<1> QED BY <1>1, PipelineInvariant, PTL

(* A request is served only if a policy of its endpoint let it through     *)
(* since it arrived, or could not be read.                                 *)
THEOREM ServesPermitted == GatewaySpec => []ServedIfLetThrough
<1>1. PipelineInv => ServedIfLetThrough
  BY DEF PipelineInv, PolicyBehind, ServedIfLetThrough
<1> QED BY <1>1, PipelineInvariant, PTL

(* With Redis, no window lets more requests with a limit go on than the    *)
(* largest limit one of them was held to, whatever fails between the       *)
(* pipeline and Redis, and whoever edits the policies.                     *)
THEOREM RateLimited == GatewaySpec => []WindowWithinLimit
<1>1. PipelineInv => WindowWithinLimit
  BY DEF PipelineInv
<1> QED BY <1>1, PipelineInvariant, PTL

(* A counter never outlives its window: the script that creates one gives  *)
(* it its expiry in the same step, or neither happens.                     *)
THEOREM WindowsEnd == GatewaySpec => []LimitLifted
<1>1. PipelineInv => LimitLifted
  BY DEF PipelineInv
<1> QED BY <1>1, PipelineInvariant, PTL

(* While requests are served as well, events agree with the rows and       *)
(* policies of one endpoint have different authors.                        *)
THEOREM ManagedWhileServing ==
  GatewaySpec => [](AnnouncedAgrees /\ OnePolicyPerAuthor)
<1>1. PipelineInv => AnnouncedAgrees /\ OnePolicyPerAuthor
  BY DEF PipelineInv, ManagementInv
<1> QED BY <1>1, PipelineInvariant, PTL
=============================================================================
