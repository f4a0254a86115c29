--------------------------- MODULE SearchParameters ---------------------------
(***************************************************************************)
(* From the parameters of a request to the search it stands for: what is   *)
(* refused, what becomes of the spellings that are accepted, the key under *)
(* which the search is cached and shared, and what the provider is asked   *)
(* (src/utils/validation.ts, src/services/newsService.ts,                  *)
(* src/providers/gnewsProvider.ts).                                        *)
(*                                                                         *)
(* An optional parameter of a search is a set of at most one value.        *)
(***************************************************************************)
EXTENDS Integers

MAX_ARTICLE_COUNT == 100
MAX_ARTICLE_PAGE == 100

\* A parameter as it was sent.  Absent stands for an empty one too, Wrong for
\* what its parser does not understand, such as a repeated parameter, a fraction
\* or a text that is too long.  A given one has a value and a spelling of it, in
\* its padding, letter case, notation or time zone.
Absent == [form |-> "absent"]
Wrong == [form |-> "wrong"]
Given(value, spelling) == [form |-> "given", value |-> value, spelling |-> spelling]

IsGiven(raw) == raw.form = "given"

\* What the parsers of optional parameters keep: the value, not its spelling.
optionalString(raw) == IF IsGiven(raw) THEN {raw.value} ELSE {}

\* The number of a page or of articles.
Bounded(raw, fallback, maximum) ==
    IF ~IsGiven(raw) THEN fallback
    ELSE IF raw.value > maximum THEN maximum ELSE raw.value

parseArticleCount(raw) == Bounded(raw, 10, MAX_ARTICLE_COUNT)
parseArticlePage(raw) == Bounded(raw, 1, MAX_ARTICLE_PAGE)

\* Which numbers are not answered with 400.
IsPositive(raw) == raw = Absent \/ (IsGiven(raw) /\ raw.value >= 1)

\* The filters that are not: the range of dates is checked on the instants.
parseArticleSearchFilters(input) ==
    /\ \A name \in {"lang", "country", "from", "to", "sortBy"} : input[name] # Wrong
    /\ (IsGiven(input.from) /\ IsGiven(input.to)) => input.from.value <= input.to.value

\* No parser of the controller throws.
IsValid(input) ==
    /\ IsGiven(input.text)
    /\ input.route # "title" =>
          /\ IsPositive(input.count) /\ IsPositive(input.page)
          /\ parseArticleSearchFilters(input)

\* The search of each route: by title it is the first page without filters, by
\* source the text is the name.
ArticleSearchOptions(input) ==
    IF input.route = "title"
    THEN [query |-> input.text.value, count |-> 10, page |-> 1, lang |-> {},
          country |-> {}, from |-> {}, to |-> {}, sortBy |-> {}]
    ELSE [query |-> input.text.value,
          count |-> parseArticleCount(input.count),
          page |-> parseArticlePage(input.page),
          lang |-> optionalString(input.lang),
          country |-> optionalString(input.country),
          from |-> optionalString(input.from),
          to |-> optionalString(input.to),
          sortBy |-> optionalString(input.sortBy)]

\* Mutant: the language is missing from the key.
searchCacheKey_NoLang(options) ==
    <<options.query, options.count, options.page, options.country,
      options.from, options.to, options.sortBy>>

searchCacheKey(options) ==
    <<options.query, options.count, options.page, options.lang, options.country,
      options.from, options.to, options.sortBy>>

\* The query of the upstream request, but for the token.
toProviderParams(options) ==
    [q |-> options.query, max |-> options.count, page |-> options.page,
     lang |-> options.lang, country |-> options.country,
     from |-> options.from, to |-> options.to, sortby |-> options.sortBy]
=============================================================================
