----------------------------- MODULE MCRegistry -----------------------------
(* A small registry: filters that overlap in their key and differ in their *)
(* action and number, and events on both sides of every one of them.       *)
EXTENDS Registry

F(event, action, number) ==
    [repo |-> "octo/repo", event |-> event, action |-> action, number |-> number]

MCFilters ==
    {F("issues", None, None), F("issues", "opened", None), F("issues", "opened", 1),
     F("pull_request", None, 2)}

MCNorms == [repo: {"octo/repo", "octo/other"}, event: {"issues", "pull_request", "release"},
            action: {None, "opened", "closed"}, number: {None, 1, 2}]
=============================================================================
