-------------------------- MODULE MCFreshRegistry --------------------------
(***************************************************************************)
(* Small worlds for FreshRegistry.  Lines have one character, so that the  *)
(* anchors see whole lines only.                                           *)
(*   plain:  a file that is read whole, and two of its regions, resolved   *)
(*           by the anchors and the stored line                            *)
(*   engine: a file the semantic engine serves, with a symbol, a region    *)
(*           named by the symbol and the whole file                        *)
(*   roomy:  as plain, with room for everything and a third read           *)
(***************************************************************************)
EXTENDS FreshRegistry

A == INSTANCE Anchors

MCLocate(content, text, start) ==
  A!ResolveRegion(content, text, A!MakeAnchors(content, start))

T(word) == [k \in DOMAIN word |-> <<word[k]>>]

PlainTexts == {T(<<"a", "b">>), T(<<"a", "c", "b">>), T(<<"b", "d">>)}

Read(path, scope, selector, from, to, pinned, counted) ==
  [path |-> path, scope |-> scope, selector |-> selector, from |-> from,
   to |-> to, pinned |-> pinned, counted |-> counted]

PlainReads == { Read("p", "file", "-", 1, 1, FALSE, FALSE),
                Read("p", "region", "-", 1, 1, FALSE, TRUE),
                Read("p", "region", "-", 1, 2, TRUE, FALSE) }

PlainIdentities == << <<"p", "region", <<1, 1>>>>, <<"p", "file", <<1, 3>>>>,
                      <<"p", "region", <<1, 2>>>>, <<"p", "file", <<1, 2>>>> >>

EngineTexts == {T(<<"a", "b">>), T(<<"x", "a", "c">>), T(<<"a", "a">>)}

EngineReads == { Read("p", "symbol", "f", 1, 2, FALSE, FALSE),
                 Read("p", "region", "f", 1, 1, FALSE, TRUE),
                 Read("p", "file", "-", 1, 1, FALSE, FALSE) }

MCTexts == PlainTexts \cup EngineTexts

EngineIdentities == << <<"p", "file", <<1, 2>>>>, <<"p", "region", "f">>,
                       <<"p", "symbol", "f">>, <<"p", "file", <<1, 3>>>> >>

\* f is declared where an "a" stands, twice in "aa"; x and c do not parse.
Spans(text) == {[names |-> {"f"}, from |-> k, to |-> k] :
                  k \in {n \in DOMAIN text : text[n] = <<"a">>}}

MCAnswers(text) ==
  { [kind |-> "failed", outline |-> {}],
    IF Len(text) = 3 THEN [kind |-> "broken", outline |-> {}]
                     ELSE [kind |-> "outline", outline |-> Spans(text)],
    [kind |-> "outline", outline |-> {}] }

NoAnswers(text) == {}

Plain == INSTANCE FreshRegistry WITH
  Texts <- PlainTexts, Reads <- PlainReads, Identities <- PlainIdentities,
  EngineInjected <- FALSE, Answers <- NoAnswers

ASSUME PlainAssumption ==
  Plain!RegistryAssumption /\ Plain!IdentitiesAssumption

Engine == INSTANCE FreshRegistry WITH
  Texts <- EngineTexts, MaxEdits <- 2

Roomy == INSTANCE FreshRegistry WITH
  Texts <- PlainTexts, Reads <- PlainReads, Identities <- PlainIdentities,
  EngineInjected <- FALSE, Answers <- NoAnswers,
  Budget <- 20, MaxEdits <- 2, MaxReads <- 3

CONSTANT Worlds    \* those that are explored

VARIABLE world

MCInit == /\ world \in Worlds
          /\ \/ world = "plain" /\ Plain!Init
             \/ world = "engine" /\ Engine!Init
             \/ world = "roomy" /\ Roomy!Init

MCNext == /\ UNCHANGED world
          /\ \/ world = "plain" /\ Plain!Next
             \/ world = "engine" /\ Engine!Next
             \/ world = "roomy" /\ Roomy!Next

MCSpec == MCInit /\ [][MCNext]_<<vars, world>>
=============================================================================
