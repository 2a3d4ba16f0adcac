----------------------------- MODULE MCGateway ------------------------------
(* Small instances of the gateway.  The valid queries overlap: one asks for *)
(* all issues and pull requests, one for one number and one for one action  *)
(* of them; the deliveries fall in all, in some and in none.                *)
EXTENDS Gateway, TLC

Repo == <<"octo", "repo">>

Ask(repo, events, number, bearer) ==
    [repo |-> repo, events |-> events, action |-> None, number |-> number, bearer |-> bearer]

Wide == Ask(Repo, {"issues", "pull_request"}, None, TRUE)
Narrow == Ask(Repo, {"issues"}, 1, TRUE)
OpenedOnly == [Wide EXCEPT !.action = "opened"]

BadQueries ==
    {Ask(None, {"issues"}, None, TRUE), Ask(Repo, {"push"}, None, TRUE),
     Ask(<<"octo", "">>, {"issues"}, None, TRUE), Ask(<<"octo">>, {"issues"}, None, TRUE),
     Ask(Repo, {"issues"}, Malformed, FALSE), Ask(Repo, {"issues"}, None, FALSE)}

Post(event, repo, action, issue, pull_request) ==
    [signed |-> TRUE, event |-> event, shape |-> "object",
     payload |-> [repo |-> repo, action |-> action, issue |-> issue,
                  pull_request |-> pull_request]]

Issue1 == Post("issues", Repo, "opened", 1, None)
Pull1 == Post("pull_request", Repo, "closed", None, 1)
Issue2 == Post("issues", Repo, "closed", 2, None)
Elsewhere == Post("issues", <<"octo", "other">>, "opened", 1, None)

Ping == [Issue1 EXCEPT !.event = "ping"]

BadDeliveries ==
    {Ping, [Issue1 EXCEPT !.signed = FALSE],
     [Issue1 EXCEPT !.shape = "list"], [Issue1 EXCEPT !.payload.repo = None]}

SlowQueries == {Narrow} \cup BadQueries
SlowDeliveries == {Issue1, Pull1} \cup BadDeliveries
RoutingQueries == {Wide, Narrow, OpenedOnly, Ask(Repo, {"issues"}, None, FALSE)}
RoutingDeliveries == {Issue1, Issue2, Elsewhere, Ping}

MCFilters == UNION {FiltersOf(q) : q \in {p \in RoutingQueries : QueryStatus(p) = 200}}
MCNorms == {normalize(d.event, d.payload) :
              d \in {p \in RoutingDeliveries : DeliveryStatus(p) = 202}}

StreamSymmetry == Permutations(Streams)
=============================================================================
