------------------------------ MODULE RbacCache ------------------------------
(***************************************************************************)
(* The permission cache of RBACServiceImpl: requests that check a          *)
(* permission read through Redis to the user_roles table, requests that    *)
(* assign a role insert a row and then delete the cached entry.  The two   *)
(* are separate calls to separate stores, in goroutines of their own.      *)
(*                                                                         *)
(* A role stands for the permissions it carries: role_permissions does not *)
(* change while the program runs, and no use case takes a role away.  An   *)
(* entry of the cache is never the empty list, so {} is a missing entry.   *)
(***************************************************************************)
EXTENDS Naturals

CONSTANTS
    User, Org, Role,
    Reader,      \* requests that check a permission, each served in turn
    Assigner,    \* requests that assign a role
    None,
    MaxFaults    \* bound: calls to Redis or PostgreSQL that fail

ASSUME RbacAssumption ==
    /\ None \notin User \X Org
    /\ Reader \intersect Assigner = {}
    /\ MaxFaults \in Nat

Key == User \X Org

VARIABLES
    db,        \* user_roles: user and organization -> roles
    cache,     \* Redis: user:{u}:org:{o}:permissions
    pc,        \* request -> its next call
    key,       \* request -> user and organization it is about
    perms,     \* reader -> the permissions it got
    faults,
    \* history, read by properties only
    overtaken, \* readers with a list that an assignment has outdated, or cut off
    outdated   \* keys whose entry was written by one, or not deleted

vars == <<db, cache, pc, key, perms, faults, overtaken, outdated>>

PCs == {"idle", "get", "query", "set", "answer", "insert", "invalidate"}

(* A request that is under way is about a user and an organization.        *)
KeysKnown == \A p \in Reader \union Assigner : pc[p] # "idle" => key[p] \in Key

TypeOK ==
    /\ db    \in [Key -> SUBSET Role]
    /\ cache \in [Key -> SUBSET Role]
    /\ pc    \in [Reader \union Assigner -> PCs]
    /\ key   \in [Reader \union Assigner -> Key \union {None}]
    /\ perms \in [Reader -> SUBSET Role]
    /\ faults \in 0..MaxFaults
    /\ overtaken \subseteq Reader
    /\ outdated \subseteq Key
    /\ KeysKnown

Init ==
    /\ db    = [k \in Key |-> {}]
    /\ cache = [k \in Key |-> {}]
    /\ pc    = [p \in Reader \union Assigner |-> "idle"]
    /\ key   = [p \in Reader \union Assigner |-> None]
    /\ perms = [r \in Reader |-> {}]
    /\ faults = 0
    /\ overtaken = {} /\ outdated = {}

Goto(p, label) == pc' = [pc EXCEPT ![p] = label]
Fault == faults < MaxFaults /\ faults' = faults + 1

(* cacheKey.  Mutant: the entry is the user's, whatever the organization.  *)
CacheKeyOfUser(k) == <<k[1], CHOOSE o \in Org : TRUE>>
CacheKey(k) == k

----------------------------------------------------------------------------
(* GetUserPermissions.                                                     *)

Check(r, k) ==
    /\ pc[r] = "idle"
    /\ Goto(r, "get")
    /\ key' = [key EXCEPT ![r] = k]
    /\ perms' = [perms EXCEPT ![r] = {}]
    /\ UNCHANGED <<db, cache, faults, overtaken, outdated>>

GetHit(r) ==
    /\ pc[r] = "get"
    /\ cache[CacheKey(key[r])] # {}
    /\ perms' = [perms EXCEPT ![r] = cache[CacheKey(key[r])]]
    /\ Goto(r, "answer")
    /\ UNCHANGED <<db, cache, key, faults, overtaken, outdated>>

(* No entry, or an error of Redis, which is not told from a miss.          *)
GetMiss(r) ==
    /\ pc[r] = "get"
    /\ \/ cache[CacheKey(key[r])] = {} /\ UNCHANGED faults
       \/ Fault
    /\ Goto(r, "query")
    /\ UNCHANGED <<db, cache, key, perms, overtaken, outdated>>

(* Only a list that is not empty is cached.                                *)
Query(r) ==
    /\ pc[r] = "query"
    /\ perms' = [perms EXCEPT ![r] = db[key[r]]]
    /\ Goto(r, IF db[key[r]] = {} THEN "answer" ELSE "set")
    /\ UNCHANGED <<db, cache, key, faults, overtaken, outdated>>

(* The connection is lost between two rows.  The loop ends as after the    *)
(* last one, since nobody asks for rows.Err, and the rest is not missed.   *)
QueryCut(r) ==
    /\ pc[r] = "query"
    /\ Fault
    /\ \E rows \in SUBSET db[key[r]] :
          /\ rows # db[key[r]]
          /\ perms' = [perms EXCEPT ![r] = rows]
          /\ IF rows = {}
             THEN Goto(r, "answer") /\ UNCHANGED overtaken
             ELSE Goto(r, "set") /\ overtaken' = overtaken \union {r}
    /\ UNCHANGED <<db, cache, key, outdated>>

(* The query fails: the check answers with an error.                       *)
QueryFails(r) ==
    /\ pc[r] = "query"
    /\ Fault
    /\ Goto(r, "answer")
    /\ UNCHANGED <<db, cache, key, perms, overtaken, outdated>>

(* Redis Set; its error is ignored.                                        *)
SetEntry(r) ==
    /\ pc[r] = "set"
    /\ cache' = [cache EXCEPT ![CacheKey(key[r])] = perms[r]]
    /\ outdated' = IF r \in overtaken THEN outdated \union {key[r]} ELSE outdated
    /\ overtaken' = overtaken \ {r}
    /\ Goto(r, "answer")
    /\ UNCHANGED <<db, key, perms, faults>>

SetFails(r) ==
    /\ pc[r] = "set"
    /\ Fault
    /\ overtaken' = overtaken \ {r}
    /\ Goto(r, "answer")
    /\ UNCHANGED <<db, cache, key, perms, outdated>>

(* HasPermission and HasAnyPermission match perms, and the request ends.   *)
Answer(r) ==
    /\ pc[r] = "answer"
    /\ Goto(r, "idle")
    /\ UNCHANGED <<db, cache, key, perms, faults, overtaken, outdated>>

----------------------------------------------------------------------------
(* AssignRole.                                                             *)

(* Readers that hold a list from before this row.                          *)
Holding(k) == {r \in Reader : pc[r] = "set" /\ key[r] = k}

Insert(k, role) == db' = [db EXCEPT ![k] = @ \union {role}]

(* INSERT ... ON CONFLICT DO NOTHING.                                      *)
Assign(a, k, role) ==
    /\ pc[a] = "idle"
    /\ key' = [key EXCEPT ![a] = k]
    /\ Insert(k, role)
    /\ overtaken' = IF role \in db[k] THEN overtaken ELSE overtaken \union Holding(k)
    /\ Goto(a, "invalidate")
    /\ UNCHANGED <<cache, perms, faults, outdated>>

(* The statement takes effect and its answer is lost: Execute returns the  *)
(* error before it invalidates.                                            *)
AssignFails(a, k, role) ==
    /\ pc[a] = "idle"
    /\ Fault
    /\ Insert(k, role)
    /\ overtaken' = IF role \in db[k] THEN overtaken ELSE overtaken \union Holding(k)
    /\ outdated' = outdated \union {k}
    /\ UNCHANGED <<cache, pc, key, perms>>

(* Mutant: another organization's entry is deleted.                        *)
InvalidateOther(a) ==
    /\ pc[a] = "invalidate"
    /\ \E o \in Org \ {key[a][2]} :
          /\ cache' = [cache EXCEPT ![<<key[a][1], o>>] = {}]
          /\ outdated' = outdated \ {<<key[a][1], o>>}
    /\ Goto(a, "idle")
    /\ UNCHANGED <<db, key, perms, faults, overtaken>>

(* Redis Del.                                                              *)
Invalidate(a) ==
    /\ pc[a] = "invalidate"
    /\ cache' = [cache EXCEPT ![CacheKey(key[a])] = {}]
    /\ outdated' = outdated \ {key[a]}
    /\ Goto(a, "idle")
    /\ UNCHANGED <<db, key, perms, faults, overtaken>>

(* Its error is dropped: the assignment answers that it succeeded.         *)
InvalidateFails(a) ==
    /\ pc[a] = "invalidate"
    /\ Fault
    /\ outdated' = outdated \union {key[a]}
    /\ Goto(a, "idle")
    /\ UNCHANGED <<db, cache, key, perms, overtaken>>

(* Mutant: the entry is written without permissionCacheTTL.                *)
TTLNever(k) == FALSE /\ UNCHANGED vars

(* The 15 minutes of permissionCacheTTL pass.                              *)
TTL(k) ==
    /\ cache[k] # {}
    /\ cache' = [cache EXCEPT ![k] = {}]
    /\ outdated' = outdated \ {k}
    /\ UNCHANGED <<db, pc, key, perms, faults, overtaken>>

----------------------------------------------------------------------------
ReaderCall(r) ==
    \/ GetHit(r) \/ GetMiss(r) \/ Query(r) \/ QueryCut(r) \/ QueryFails(r)
    \/ SetEntry(r) \/ SetFails(r) \/ Answer(r)

ReaderNext(r) == (\E k \in Key : Check(r, k)) \/ ReaderCall(r)

AssignerCall(a) == Invalidate(a) \/ InvalidateFails(a)

AssignerNext(a) ==
    \/ \E k \in Key, role \in Role : Assign(a, k, role) \/ AssignFails(a, k, role)
    \/ AssignerCall(a)

Next ==
    \/ \E r \in Reader : ReaderNext(r)
    \/ \E a \in Assigner : AssignerNext(a)
    \/ \E k \in Key : TTL(k)

(* A request's goroutine goes on; entries expire.                          *)
Spec ==
    /\ Init /\ [][Next]_vars
    /\ \A r \in Reader : WF_vars(ReaderCall(r))
    /\ \A a \in Assigner : WF_vars(AssignerCall(a))
    /\ \A k \in Key : WF_vars(TTL(k))

----------------------------------------------------------------------------
(* No check is answered with more than the table grants the user in that   *)
(* organization, from the cache or not.                                    *)
NeverMoreThanGranted ==
    /\ \A k \in Key : cache[k] \subseteq db[k]
    /\ \A r \in Reader : pc[r] # "idle" => perms[r] \subseteq db[key[r]]

Stale(k) == cache[k] \notin {{}, db[k]}
Assigning(k) == \E a \in Assigner : pc[a] = "invalidate" /\ key[a] = k

(* An entry lacks a role only while its assignment is about to delete it,  *)
(* or because a reader that queried before the row wrote after the delete, *)
(* or because a call failed on the way or was cut off.                     *)
StaleExplained == \A k \in Key : Stale(k) => Assigning(k) \/ k \in outdated

(* What a check misses is never older than the last TTL: once assignments  *)
(* cease, so do stale entries.                                             *)
FreshInTheEnd == \A k \in Key : <>[](~Stale(k))

----------------------------------------------------------------------------
(* The inductive invariant.  A reader about to write has the table's list  *)
(* unless an assignment has overtaken it or the list was cut off; that is  *)
(* why only such a reader, or a failure, can leave a stale entry behind.   *)
WritesCurrentUnlessOvertaken ==
    \A r \in Reader :
        pc[r] = "set" /\ r \notin overtaken => perms[r] = db[key[r]]

IInv ==
    /\ TypeOK
    /\ NeverMoreThanGranted
    /\ WritesCurrentUnlessOvertaken
    /\ StaleExplained
=============================================================================
