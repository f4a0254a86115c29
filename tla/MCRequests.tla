------------------------------ MODULE MCRequests ------------------------------
(* Requests on a small instance: a search and a request by title that ask   *)
(* the provider for the same, another search, and one that is refused.      *)
EXTENDS Requests, TLC

Search1 ==
    [route |-> "search", text |-> Given("a", "a"), count |-> Given(10, "10"),
     page |-> Absent, lang |-> Absent, country |-> Absent, from |-> Absent,
     to |-> Absent, sortBy |-> Absent]
ByTitle == [Search1 EXCEPT !.route = "title", !.text = Given("a", " a "), !.count = Wrong]
InEnglish == [Search1 EXCEPT !.lang = Given("en", "EN")]
Backwards == [Search1 EXCEPT !.from = Given(2, "2"), !.to = Given(1, "1")]

CONSTANTS c1, c2

Both(first, second) == (c1 :> first) @@ (c2 :> second)

SmallInputs ==
    {Both(Search1, second) : second \in {ByTitle, InEnglish, Backwards}}
SmallKeys == {SearchKey(input) : input \in {Search1, InEnglish}}
=============================================================================
