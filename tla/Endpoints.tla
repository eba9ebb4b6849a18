------------------------------ MODULE Endpoints ------------------------------
(***************************************************************************)
(* Management of endpoints and of their policies.  Every use case reads a  *)
(* row, decides, and writes in a later statement; a change of an endpoint  *)
(* is then announced by an event.  Nothing joins these calls.              *)
(*                                                                         *)
(* An endpoint stands for its UNIQUE (app, method, path, version); of its  *)
(* row only the status ever changes.  Calls that are refused and change    *)
(* nothing are not steps.  Rows are never deleted.                         *)
(***************************************************************************)
EXTENDS Naturals

CONSTANTS
    Endpoint,
    Policy,      \* rows of app_endpoint_policies that can be drawn
    Rule,        \* contents of a policy
    Admin,       \* requests that manage endpoints, each served in turn
    None,
    MaxFaults    \* bound: database calls and publications that fail

ASSUME EndpointsAssumption ==
    /\ None \notin Endpoint \union Policy \union Rule \union Admin
    /\ {"active", "retired"} \intersect Rule = {}
    /\ MaxFaults \in Nat

VARIABLES
    status,     \* app_endpoints
    policyOf,   \* app_endpoint_policies: row -> its endpoint, None if free
    rule,       \*                        row -> its content
    announced,  \* endpoint -> the status its last event told of
    pc,         \* admin -> its next call
    subject,    \* admin -> the endpoint it is about
    change,     \* admin -> the status, or the rule, it is to have
    row,        \* admin -> the policy row it has found
    faults,
    \* history, read by properties only
    crossed,    \* endpoints last written while another event was to come
    silent,     \* endpoints with an event lost since
    blind,      \* admins whose lookup of a policy failed
    author      \* policy row -> who inserted it after finding none

managementVars == <<status, policyOf, rule, announced, pc, subject, change, row,
                    faults, crossed, silent, blind, author>>

Status == {"active", "retired"}

TypeOK ==
    /\ status \in [Endpoint -> Status \union {"none"}]
    /\ policyOf \in [Policy -> Endpoint \union {None}]
    /\ rule \in [Policy -> Rule \union {None}]
    /\ announced \in [Endpoint -> Status \union {"none"}]
    /\ pc \in [Admin -> {"idle", "insert", "update", "publish", "put", "create"}]
    /\ subject \in [Admin -> Endpoint \union {None}]
    /\ change \in [Admin -> Status \union Rule \union {None}]
    /\ row \in [Admin -> Policy \union {None}]
    /\ faults \in 0..MaxFaults
    /\ crossed \subseteq Endpoint /\ silent \subseteq Endpoint
    /\ blind \subseteq Admin
    /\ author \in [Policy -> Admin \union {None}]

Init ==
    /\ status = [e \in Endpoint |-> "none"]
    /\ policyOf = [p \in Policy |-> None]
    /\ rule = [p \in Policy |-> None]
    /\ announced = [e \in Endpoint |-> "none"]
    /\ pc = [a \in Admin |-> "idle"]
    /\ subject = [a \in Admin |-> None]
    /\ change = [a \in Admin |-> None]
    /\ row = [a \in Admin |-> None]
    /\ faults = 0
    /\ crossed = {} /\ silent = {} /\ blind = {}
    /\ author = [p \in Policy |-> None]

Fault == faults < MaxFaults /\ faults' = faults + 1

(* A request comes in, goes on, and ends; it keeps nothing.                *)
Request(a, e, c, label) ==
    /\ pc[a] = "idle"
    /\ pc' = [pc EXCEPT ![a] = label]
    /\ subject' = [subject EXCEPT ![a] = e]
    /\ change' = [change EXCEPT ![a] = c]

Goto(a, label) ==
    /\ pc' = [pc EXCEPT ![a] = label]
    /\ UNCHANGED <<subject, change, row, blind>>

Done(a) ==
    /\ pc' = [pc EXCEPT ![a] = "idle"]
    /\ subject' = [subject EXCEPT ![a] = None]
    /\ change' = [change EXCEPT ![a] = None]
    /\ row' = [row EXCEPT ![a] = None]
    /\ blind' = blind \ {a}

PoliciesOf(e) == {p \in Policy : policyOf[p] = e}

requestVars == <<pc, subject, change, row, blind>>
policyVars == <<policyOf, rule, author>>
endpointVars == <<status, announced, crossed, silent>>

----------------------------------------------------------------------------
(* DefineEndpoint, ActivateEndpoint, RetireEndpoint.                       *)

(* Another request has written the endpoint and will tell of it later.     *)
Announcing(e) == {b \in Admin : pc[b] = "publish" /\ subject[b] = e}

(* The row is written; from then on an event of this write is due.         *)
WriteStatus(a, e, s) ==
    /\ status' = [status EXCEPT ![e] = s]
    /\ crossed' = IF Announcing(e) = {} THEN crossed \ {e} ELSE crossed \union {e}
    /\ silent' = silent \ {e}

(* The statement takes effect, its answer is lost: Execute publishes not.  *)
WriteUnanswered(a, e, s) ==
    /\ status' = [status EXCEPT ![e] = s]
    /\ silent' = silent \union {e}
    /\ UNCHANGED crossed

(* GetByMethodPath finds none; an error of it is taken for that.           *)
Define(a, e) ==
    /\ Request(a, e, "active", "insert")
    /\ \/ status[e] = "none" /\ UNCHANGED faults
       \/ Fault
    /\ UNCHANGED <<endpointVars, policyVars, row, blind>>

(* EndpointRepo.Create, with status active.                                *)
Insert(a) ==
    /\ pc[a] = "insert" /\ status[subject[a]] = "none"
    /\ WriteStatus(a, subject[a], "active")
    /\ Goto(a, "publish")
    /\ UNCHANGED <<announced, faults, policyVars>>

InsertFails(a) ==
    /\ pc[a] = "insert"
    /\ \/ status[subject[a]] # "none"             \* the UNIQUE constraint
          /\ UNCHANGED <<status, crossed, silent, faults>>
       \/ Fault /\ UNCHANGED <<status, crossed, silent>>
       \/ Fault /\ status[subject[a]] = "none"
          /\ WriteUnanswered(a, subject[a], "active")
    /\ Done(a)
    /\ UNCHANGED <<announced, policyVars>>

(* GetByID, and the check that the change is one.                          *)
Change(a, e, s) ==
    /\ status[e] \notin {"none", s}
    /\ Request(a, e, s, "update")
    /\ UNCHANGED <<endpointVars, policyVars, row, blind, faults>>

(* Mutant: the row is written as it was read.                              *)
UpdateUnchanged(a) ==
    /\ pc[a] = "update"
    /\ WriteStatus(a, subject[a], status[subject[a]])
    /\ Goto(a, "publish")
    /\ UNCHANGED <<announced, faults, policyVars>>

(* EndpointRepo.Update of the row as read, with the new status.            *)
Update(a) ==
    /\ pc[a] = "update"
    /\ WriteStatus(a, subject[a], change[a])
    /\ Goto(a, "publish")
    /\ UNCHANGED <<announced, faults, policyVars>>

UpdateFails(a) ==
    /\ pc[a] = "update"
    /\ Fault
    /\ \/ UNCHANGED <<status, crossed, silent>>
       \/ WriteUnanswered(a, subject[a], change[a])
    /\ Done(a)
    /\ UNCHANGED <<announced, policyVars>>

(* EndpointCreated, EndpointActivated, EndpointRetired.                    *)
Publish(a) ==
    /\ pc[a] = "publish"
    /\ announced' = [announced EXCEPT ![subject[a]] = change[a]]
    /\ Done(a)
    /\ UNCHANGED <<status, crossed, silent, faults, policyVars>>

(* The bus drops the event, or fails; the error is ignored.                *)
PublishFails(a) ==
    /\ pc[a] = "publish"
    /\ Fault
    /\ silent' = silent \union {subject[a]}
    /\ Done(a)
    /\ UNCHANGED <<status, announced, crossed, policyVars>>

----------------------------------------------------------------------------
(* UpdatePolicy.                                                           *)

(* Mutant: the existing row is not looked for.                             *)
PutPolicyAlways(a, e, c) ==
    /\ Request(a, e, c, "create")
    /\ UNCHANGED <<endpointVars, policyVars, row, blind, faults>>

(* GetByEndpointID: any row of the endpoint, or none.  Its error is taken  *)
(* for none.                                                               *)
PutPolicy(a, e, c) ==
    /\ \/ /\ \E p \in PoliciesOf(e) : row' = [row EXCEPT ![a] = p]
          /\ Request(a, e, c, "put")
          /\ UNCHANGED <<blind, faults>>
       \/ /\ PoliciesOf(e) = {}
          /\ Request(a, e, c, "create")
          /\ UNCHANGED <<row, blind, faults>>
       \/ /\ Fault
          /\ Request(a, e, c, "create")
          /\ blind' = blind \union {a}
          /\ UNCHANGED row
    /\ UNCHANGED <<endpointVars, policyVars>>

(* PolicyRepo.Update.                                                      *)
UpdatePolicy(a) ==
    /\ pc[a] = "put"
    /\ \/ rule' = [rule EXCEPT ![row[a]] = change[a]] /\ UNCHANGED faults
       \/ Fault /\ rule' \in {rule, [rule EXCEPT ![row[a]] = change[a]]}
    /\ Done(a)
    /\ UNCHANGED <<endpointVars, policyOf, author>>

(* PolicyRepo.Create: the endpoint must exist, but may have a policy.      *)
CreatePolicy(a) ==
    /\ pc[a] = "create" /\ status[subject[a]] # "none"
    /\ \E p \in Policy :
          /\ policyOf[p] = None
          /\ policyOf' = [policyOf EXCEPT ![p] = subject[a]]
          /\ rule' = [rule EXCEPT ![p] = change[a]]
          /\ author' = IF a \in blind THEN author ELSE [author EXCEPT ![p] = a]
    /\ UNCHANGED faults \/ Fault                  \* its answer may be lost
    /\ Done(a)
    /\ UNCHANGED endpointVars

CreatePolicyFails(a) ==
    /\ pc[a] = "create"
    /\ \/ status[subject[a]] = "none" /\ UNCHANGED faults   \* the foreign key
       \/ Fault
    /\ Done(a)
    /\ UNCHANGED <<endpointVars, policyVars>>

----------------------------------------------------------------------------
ChangeNext(a) ==
    \/ \E e \in Endpoint : Define(a, e) \/ \E s \in Status : Change(a, e, s)
    \/ Insert(a) \/ InsertFails(a) \/ Update(a) \/ UpdateFails(a)
    \/ Publish(a) \/ PublishFails(a)

PolicyNext(a) ==
    \/ \E e \in Endpoint, c \in Rule : PutPolicy(a, e, c)
    \/ UpdatePolicy(a) \/ CreatePolicy(a) \/ CreatePolicyFails(a)

ManagementNext == \E a \in Admin : ChangeNext(a) \/ PolicyNext(a)

Spec == Init /\ [][ManagementNext]_managementVars

----------------------------------------------------------------------------
(* Once no event of an endpoint is due, its last event tells its status,   *)
(* unless its last write overtook the event of an earlier one or an event  *)
(* of it was lost: the two ways the calls of the use cases leave open.     *)
AnnouncedAgrees ==
    \A e \in Endpoint :
        Announcing(e) = {} /\ e \notin crossed \union silent
            => announced[e] = status[e]

(* app_endpoint_policies has no UNIQUE (endpoint_id), yet rows do not pile *)
(* up: one that found no policy inserts at most once for an endpoint, so   *)
(* that there are as many rows as requests that overlapped, and lookups    *)
(* that failed.                                                            *)
OnePolicyPerAuthor ==
    \A p, q \in Policy :
        /\ p # q /\ policyOf[p] = policyOf[q]
        /\ author[p] # None
        => author[p] # author[q]

----------------------------------------------------------------------------
(* The inductive invariant.  What a request holds at each of its calls; an *)
(* endpoint that is neither crossed nor silent has one event due at most,  *)
(* of its present status; a request about to insert a policy has inserted  *)
(* none for that endpoint.                                                 *)
RequestsKnown ==
    \A a \in Admin :
        /\ pc[a] # "idle" => subject[a] \in Endpoint
        /\ pc[a] \in {"insert", "update", "publish"} => change[a] \in Status
        /\ pc[a] = "insert" => change[a] = "active"
        /\ pc[a] \in {"put", "create"} => change[a] \in Rule
        /\ pc[a] = "put" => row[a] \in Policy

OneEventDue ==
    \A a \in Admin :
        pc[a] = "publish" /\ subject[a] \notin crossed \union silent
            => /\ change[a] = status[subject[a]]
               /\ Announcing(subject[a]) = {a}

RulesKnown == \A p \in Policy : policyOf[p] # None => rule[p] \in Rule

FreeRowsUnsigned == \A p \in Policy : policyOf[p] = None => author[p] = None

FirstForItsAuthor ==
    \A a \in Admin, p \in Policy :
        pc[a] = "create" /\ a \notin blind /\ policyOf[p] = subject[a]
            => author[p] # a

ManagementInv ==
    /\ TypeOK
    /\ RequestsKnown /\ RulesKnown
    /\ OneEventDue /\ AnnouncedAgrees
    /\ FreeRowsUnsigned /\ FirstForItsAuthor /\ OnePolicyPerAuthor
=============================================================================
