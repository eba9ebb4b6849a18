------------------------------ MODULE MCRecords ------------------------------
(* A small instance of Records with the chain of Interceptors, and of Tenants  *)
(* within it.  Ids that no request names are interchangeable, and so are       *)
(* handlers.                                                                   *)
EXTENDS Records, Interceptors

CONSTANTS o1, o2, w1, w2, n1, n2, s1, s2, s3, a, b, r1, r2, app, u1

org(s) == [kind |-> "org", in |-> None, slug |-> s, name |-> a, active |-> TRUE]
ws(o, s) == [kind |-> "workspace", in |-> o, slug |-> s, name |-> a, active |-> TRUE]

MCInitial ==
    [i \in Id |-> CASE i = o1 -> org(s1) [] i = o2 -> org(s3)
                    [] i = w1 -> ws(o1, s1) [] i = w2 -> ws(o2, s1)
                    [] OTHER -> None]

creation(k, i) == [kind |-> k, in |-> i, slug |-> s2, name |-> a]
MCCreations ==
    {creation(k, None) : k \in {"org", "user", "app"}}
    \union {creation("app", i) : i \in {o1, n1, n2}}
    \union {creation("key", i) : i \in {n1, n2}}
    \union {creation("workspace", o1)}

MCUpdates ==
    {[claim |-> c, id |-> w1, change |-> [slug |-> s, name |-> n]] :
        c \in {o1, o2}, s \in {s2, None}, n \in {b, None}}

endpoint(service, masking, schema) ==
    [service |-> service, table |-> None, url |-> FALSE, masking |-> masking, schema |-> schema]
field(k, v) == Object(k :> v)
secret  == field("token", Leaf("1"))
deep    == field("note", field("token", Leaf("1")))
listed  == field("note", Array(<<field("token", Leaf("1"))>>))
nested  == field("note", Array(<<Array(<<field("token", Leaf("1"))>>)>>))
other   == field("size", Leaf("1"))
masked  == endpoint(<<"order", "-service">>, TRUE, None)
bareone == endpoint(<<"order", "-handler">>, FALSE, None)
checked == endpoint(<<"order", "s">>, TRUE, {secret, deep})
remote  == [masked EXCEPT !.url = TRUE]

call(e, method, action, o, path, body) ==
    [endpoint |-> e, method |-> method, action |-> action, claim |-> o, app |-> app,
     path |-> path, body |-> body]
MCCalls ==
    {call(masked, "POST", "create", o1, <<>>, body) : body \in {listed, nested, Long, other}}
    \union {call(bareone, "POST", "create", o, <<>>, secret) : o \in {o1, o2}}
    \union {call(remote, "POST", "create", o1, <<>>, secret)}
    \union {call(checked, "POST", "create", o1, <<>>, Long)}
    \union {call(e, "PUT", "update", o1, <<<<"order">>, r>>, deep) :
              e \in {bareone, checked}, r \in {r1, r2}}
    \union {call(masked, "DELETE", "delete", o1, <<word, r>>, Empty) :
              r \in {r1, r2}, word \in {<<"order">>, <<"order", "s">>}}

MCIntercepted(c) == Intercept(None, c.endpoint, c.method, c.body)

(* JSON values that go one level deeper than the given ones.                   *)
Around(values) ==
    {Leaf("1")}
    \union {Object(f) : f \in UNION {[keys -> values] : keys \in SUBSET {"token", "note"}}}
    \union {Array(items) : items \in UNION {[1..n -> values] : n \in 0..2}}
(* maskMap against what it is for: of every object with such values, what it   *)
(* returns shows no sensitive field but inside arrays of arrays.               *)
ASSUME MaskerHides ==
    \A value \in Around(Around(Around({Leaf("1")}))) :
        value.type = "object" =>
            \A column \in DOMAIN MaskMap(value.fields) :
                ~Leaks(column, MaskMap(value.fields)[column])

MCLists ==
    {[of |-> "org"], [of |-> "user"], [of |-> "app", in |-> o1], [of |-> "workspace", in |-> o1],
     [of |-> "key", in |-> n1], [of |-> "key", in |-> n2], [of |-> "usage", user |-> u1],
     [of |-> "records", own |-> Owner(call(masked, "GET", "list", o1, <<>>, Empty))]}

Symmetry == Permutations({n1, n2}) \union Permutations({r1, r2}) \union Permutations(Handler)
            \union Permutations(UsageId)
=============================================================================
