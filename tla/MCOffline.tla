------------------------------ MODULE MCOffline ------------------------------
(* Offline for TLC: the texts, chunks, queries, replies, environments and     *)
(* cases it is checked with.                                                  *)
EXTENDS Offline

\* Chunk configurations, valid and not; <<2, 1>> is the shape of the real ones.
MCSizes == {<<2, 1>>, <<3, 1>>, <<3, 2>>, <<2, 0>>, <<1, 1>>}

\* Three chunks of two sources in two languages, one of them about a known place.
MCSource == <<"s1", "s2", "s2">>
MCDistrict == <<"d1", "d2", "d1">>
MCPoi == <<"p1", "none", "none">>
MCLanguageOf == [s1 |-> "en", s2 |-> "tr"]
MCSignals == {<< <<>>, <<>>, <<>> >>, << <<2, 3>>, <<2>>, <<2>> >>, << <<>>, <<2>>, <<3>> >>}

Claim(quoted, cites, overlaps) ==
    [quoted |-> quoted, cites |-> cites, overlaps |-> overlaps, shaped |-> TRUE]
Grounded(claims) == [status |-> "grounded", claims |-> claims]

\* Claims that hold, that quote another chunk than they cite, that cite what was not
\* retrieved or quote nothing, and one of a wrong shape.
MCObjects ==
    {[status |-> "insufficient", claims |-> <<>>], Grounded(<<>>),
     Grounded(<<Claim({1}, {1}, TRUE)>>), Grounded(<<Claim({1}, {1}, FALSE)>>),
     Grounded(<<Claim({2}, {2, 3}, FALSE)>>), Grounded(<<Claim({2}, {1}, TRUE)>>),
     Grounded(<<Claim({1}, {1}, TRUE), Claim({}, {2}, TRUE)>>),
     Grounded(<<Claim({1}, {1}, TRUE), Claim({2, 3}, {2}, FALSE)>>),
     Grounded(<<[Claim({1}, {1}, TRUE) EXCEPT !.shaped = FALSE]>>)}

Query(mode, dense, sparse, topK, district, poi, client) ==
    [mode |-> mode, dense |-> dense, sparse |-> sparse, topK |-> topK,
     district |-> district, poi |-> poi, client |-> client]
Rankings == {<<0, 1, 2, 3>>, <<1, 2, 3, 0>>, <<3, 0, 2, 1>>, <<2, 3, 1, 0>>}

MCQueries ==
    {Query("dense", d, <<0, 0, 0>>, k, in, "any", "up") :
         d \in Rankings, k \in {1, 2}, in \in {"any", "d1"}}
        \cup {Query("hybrid_rrf", d, s, 2, in, "any", "up") :
                 d \in Rankings, s \in {<<0, 1, 2>>, <<2, 2, 0>>, <<1, 3, 2>>}, in \in {"any", "d2"}}
        \cup {Query("dense", <<0, 1, 2, 3>>, <<0, 0, 0>>, 2, "any", p, c) :
                 p \in {"p1", "p9", "unknown", "any"}, c \in {"down", "none", "up"}}

\* One question to answer and one to refuse, and environments that differ in keys,
\* overrides and requirements.
MCQuestions == <<"a", "r">>
Pair(generator, judge) == [generator |-> generator, judge |-> judge]
Env(keys, ollama, override, require, requireRole) ==
    [keys |-> keys, ollama |-> ollama, override |-> override, require |-> require,
     requireRole |-> requireRole]
NoPair == Pair("none", "none")
MCEnvs ==
    {Env({"groq"}, FALSE, NoPair, "groq", NoPair),
     Env({"groq", "qwen"}, FALSE, Pair("qwen", "none"), "none", Pair("qwen", "groq")),
     Env({}, TRUE, NoPair, "none", NoPair),
     Env({"qwen"}, TRUE, NoPair, "none", Pair("qwen", "none")),
     Env({"openai", "groq"}, FALSE, NoPair, "none", NoPair)}

\* A setup, one that differs in hashed code, one in code that is not hashed.
MCSetups == {[hashed |-> "h1", other |-> "o1"], [hashed |-> "h2", other |-> "o1"],
             [hashed |-> "h1", other |-> "o2"]}
MCFirstSetup == [hashed |-> "h1", other |-> "o1"]

\* Cases of the two roles, answered with or without a call.
MCCases == << [role |-> "supervisor", idle |-> FALSE], [role |-> "supervisor", idle |-> TRUE],
              [role |-> "specialist", idle |-> TRUE] >>
=============================================================================
