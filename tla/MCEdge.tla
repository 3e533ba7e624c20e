------------------------------- MODULE MCEdge -------------------------------
(* What a caller meets at the edge of the gateway: the limiter of rejected *)
(* requests, the token verifier and the role policy, the MCP endpoint and  *)
(* the adapter of HTTP APIs.  They share no state, so a behaviour is a     *)
(* behaviour of one of them, which part names.                             *)
EXTENDS AuthLimit, Access, Endpoint, RestApi, TLC

VARIABLE part

edgeVars == <<part, limitVars, accessVars, endVars, restVars>>

Init ==
    /\ part \in {"limiter", "access", "endpoint", "rest"}
    /\ AuthInit /\ AccessInit /\ EndInit /\ RestInit
    /\ part # "endpoint" => grants = [c \in Callers |-> {}] /\ left.arrivals = 2
    /\ part # "access" => published = {"k1"} /\ config = CHOOSE c \in Configs : New(c)

Next ==
    \/ part = "limiter" /\ AuthNext /\ UNCHANGED <<part, accessVars, endVars, restVars>>
    \/ part = "access" /\ AccessNext /\ UNCHANGED <<part, limitVars, endVars, restVars>>
    \/ part = "endpoint" /\ EndNext /\ UNCHANGED <<part, limitVars, accessVars, restVars>>
    \/ part = "rest" /\ RestNext /\ UNCHANGED <<part, limitVars, accessVars, endVars>>

Spec == Init /\ [][Next]_edgeVars

-----------------------------------------------------------------------------
(* The verifier's instance: tokens, configurations and policies.           *)
Str(g) == [kind |-> "string", is |-> g]
T(key, sub, groups) == [compact |-> TRUE, iss |-> "idp", aud |-> {"gw"}, live |-> TRUE, alg |-> "RS256",
    key |-> key, object |-> TRUE, sub |-> sub, groups |-> groups]
Arr(s) == [kind |-> "array", list |-> s]
MCTokens == {T("k1", "alice", Arr({Str(<<"g1">>), Str(<<"g2">>)})),
             T("k2", "alice", Arr({Str(<<" g1">>), Str(<<" ">>), [kind |-> "number", is |-> <<"g2">>]})),
             T("forged", "eve", [kind |-> "text", list |-> {}]),
             T("k1", " alice", Arr({}))}
MCConfigs == {[issuer |-> "idp", audience |-> "gw", algs |-> {}],
              [issuer |-> "idp", audience |-> "gw", algs |-> {"HS256"}],
              [issuer |-> "idp", audience |-> "", algs |-> {"RS256"}]}
R(name, named, under, nonRead) == [name |-> <<name>>, tools |-> named, grants |-> under, nonRead |-> nonRead]
G(b, ids) == [x \in {b} |-> ids]
NoG == [x \in {} |-> << >>]
MCAdvertised == {<<"a", "t">>, <<"a", "b", "t">>, <<"b", "t">>}
Roles1 == {R("r1", {}, G(b, ids), TRUE) : b \in {<<"a">>, <<"a", "b">>, <<"*">>, <<"">>, <<" a">>},
               ids \in {<<GrantAll>>, <<GrantAll, <<"t">>>>, <<<<"t">>, <<"t">>>>, <<<<"b", "t">>>>, <<<<"t ">>>>}}
          \union {R("r1", {<<"a", "t">>}, NoG, TRUE), R("r1", {<<"t ">>}, NoG, FALSE)}
R2 == R("r2", {<<"b", "t">>}, NoG, FALSE)
M(s) == [g \in {<<"g1">>, <<"g2">>} |-> IF g = <<"g1">> THEN <<"r1">> ELSE s]
MCPolicies == {[roles |-> <<r>>, mapping |-> M(<<"r1">>)] : r \in Roles1}
    \union {[roles |-> <<r, R2>>, mapping |-> M(<<"r2">>)] : r \in Roles1}
    \union {[roles |-> <<R2, R2>>, mapping |-> << >>]}

-----------------------------------------------------------------------------
(* The endpoint's instance.                                                *)
MCTools == {<<"a", "t">>, <<"b", "u">>}
MCUnservable == {<<"b", "u">>}
(* Two requests with what is served changing, or a third that evicts.     *)
MCEndBounds == {[ticks |-> 2, arrivals |-> 2, changes |-> 1], [ticks |-> 2, arrivals |-> 3, changes |-> 0]}
MCForwarded == {<<"x", "">>}
Symmetry == Permutations(Requests) \union Permutations(Callers)

-----------------------------------------------------------------------------
(* The adapter's instance: documents, ingestion options, addresses and     *)
(* answers.                                                                *)
S == [str  |-> [own |-> 1, holds |-> {}, ref |-> "", object |-> FALSE, clash |-> FALSE],
      obj  |-> [own |-> 2, holds |-> {"str"}, ref |-> "", object |-> TRUE, clash |-> FALSE],
      to   |-> [own |-> 0, holds |-> {}, ref |-> "obj", object |-> TRUE, clash |-> FALSE],
      to2  |-> [own |-> 0, holds |-> {}, ref |-> "obj", object |-> TRUE, clash |-> FALSE],
      pair |-> [own |-> 1, holds |-> {"to", "to2"}, ref |-> "", object |-> TRUE, clash |-> FALSE],
      loop |-> [own |-> 1, holds |-> {"back"}, ref |-> "", object |-> TRUE, clash |-> FALSE],
      back |-> [own |-> 0, holds |-> {}, ref |-> "loop", object |-> TRUE, clash |-> FALSE],
      r1   |-> [own |-> 0, holds |-> {}, ref |-> "pair", object |-> TRUE, clash |-> FALSE],
      r2   |-> [own |-> 0, holds |-> {}, ref |-> "r1", object |-> TRUE, clash |-> FALSE],
      gone |-> [own |-> 0, holds |-> {}, ref |-> "out", object |-> TRUE, clash |-> FALSE],
      both |-> [own |-> 1, holds |-> {"obj"}, ref |-> "", object |-> TRUE, clash |-> TRUE]]
Folded == "X_Token" :> "x-token" @@ "x-token" :> "x-token" @@ "Authorization" :> "authorization" @@ "Key" :> "key"
Legal == <<"list.">> :> <<"list">>
Lowered == "X_Token" :> "x_token" @@ "Authorization" :> "authorization" @@ "Key" :> "key"
P(where, name, s) == [in |-> where, name |-> name, media |-> "json", schema |-> s, text |-> 0]
Op(id, ps, body, outs) == [id |-> id, params |-> ps, body |-> body, text |-> 0, outs |-> outs, compiles |-> TRUE,
                           size |-> 2, accepted |-> TRUE]
At(key, t, ps, ops) == [key |-> key, kind |-> "ok", templates |-> t, params |-> ps, ops |-> ops]
Doc(ss, srv, ps) == [tooDeep |-> FALSE, aliases |-> 1, keyTwice |-> FALSE, version |-> "3", schemes |-> ss, server |-> srv, paths |-> ps]
Token == [kind |-> "header", name |-> "X_Token"]
List  == At("/list", {}, <<P("header", "x-token", "str"), [P("query", "q", "str") EXCEPT !.text = 1]>>,
            "GET" :> Op(<<"list">>, <<P("query", "Key", "str")>>, "", <<"obj", "obj">>)
            @@ "POST" :> [Op(<<"list.">>, <<>>, "pair", <<"none">>) EXCEPT !.text = 1])
Item  == At("/item", {"id"}, <<P("path", "id", "str")>>,
            "GET" :> Op(<<>>, <<P("header", "Authorization", "str")>>, "", <<"obj", "pair">>)
            @@ "PUT" :> [Op(<<"put">>, <<P("path", "id", "to")>>, "obj", <<"pair">>) EXCEPT !.compiles = FALSE]
            @@ "HEAD" :> Op(<<"head">>, <<>>, "str", <<>>)
            @@ "DELETE" :> Op(<<"list">>, <<>>, "other", <<>>)
            @@ "TRACE" :> Op(<<>>, <<>>, "", <<>>))
Odd   == At("/odd", {}, <<[P("query", "q", "str") EXCEPT !.media = "other"]>>, "GET" :> Op(<<>>, <<>>, "", <<>>))
Deep  == At("/deep", {}, <<>>, "POST" :> Op(<<"the", "deep", "one", "of", "them">>, <<>>, "r1", <<"r2">>) @@ "GET" :> Op(<<"GET", "/item">>, <<>>, "", <<"loop">>))
Wide  == At("/wide", {}, <<>>, "PUT" :> Op(<<>>, <<P("query", "Key", "pair"), P("query", "q", "pair")>>, "pair", <<>>))
Loop  == At("/loop", {}, <<>>, "POST" :> Op(<<>>, <<>>, "loop", <<>>))
Twice == At("/twice", {}, <<>>, "GET" :> Op(<<>>, <<P("query", "q", "str"), P("query", "q", "str")>>, "", <<>>))
Mixed == At("/mixed", {}, <<>>, "GET" :> Op(<<>>, <<[P("query", "q", "str") EXCEPT !.media = "other"]>>, "", <<>>)
                                 @@ "POST" :> Op(<<"mixed">>, <<P("header", "X_Token", "str"), P("header", "x-token", "str")>>, "", <<>>))
Sized(n, ok) == At("/sized", {}, <<>>, "GET" :> [Op(<<"a", "b">>, <<>>, "", <<>>) EXCEPT !.size = n, !.accepted = ok]
                                        @@ "HEAD" :> [Op(<<"c">>, <<>>, "", <<>>) EXCEPT !.size = n])
Ext   == [At("/x", {}, <<>>, <<>>) EXCEPT !.kind = "vendor"]
Bad   == [Ext EXCEPT !.kind = "bad"]
D == {Doc(<<Token>>, "v1", <<List, Item>>),
      Doc(<<>>, "none", <<Ext, Item, Odd, Deep>>),
      Doc(<<Token, Token>>, "v1", <<List, Deep>>),
      Doc(<<Token>>, "v1", <<List, Item, Deep>>), Doc(<<Token>>, "v1", <<List, Item, Mixed>>),
      Doc(<<Token>>, "none", <<List, Wide, Deep>>),
      Doc(<<>>, "none", <<Mixed>>), Doc(<<Token>>, "v1", <<List>>),
      Doc(<<>>, "none", <<Item, Bad>>), Doc(<<>>, "none", <<Loop>>), Doc(<<>>, "none", <<Twice>>), Doc(<<>>, "none", <<Odd>>),
      Doc(<<>>, "none", <<Sized(21, TRUE)>>), Doc(<<>>, "none", <<Sized(19, TRUE)>>), Doc(<<>>, "none", <<Sized(18, TRUE)>>),
      Doc(<<>>, "none", <<Sized(2, FALSE)>>),
      [Doc(<<>>, "none", <<List>>) EXCEPT !.keyTwice = TRUE], [Doc(<<>>, "none", <<List>>) EXCEPT !.version = "2"],
      Doc(<<>>, "variable", <<List>>)}
O(k, n, e, nd) == [kind |-> k, name |-> n, env |-> e, noDerive |-> nd, path |-> ""]
Opts == {O("", "", 0, FALSE), O("", "", 1, FALSE), O("bearer", "", 1, FALSE), O("query", "key", 1, FALSE), O("", "", 0, TRUE)}
A(range, embeds, zone) == [range |-> range, embeds |-> embeds, zone |-> zone]
Addrs == {A("public", "", FALSE), A("private", "", FALSE), A("public", "private", FALSE), A("public", "", TRUE)}
An(redirect, bytes, echoes, failed) == [redirect |-> redirect, bytes |-> bytes, echoes |-> echoes, failed |-> failed]
Ans == {An("", 2, TRUE, FALSE), An("", 3, FALSE, FALSE), An("", 1, TRUE, TRUE), An("home", 1, FALSE, FALSE), An("otherPort", 1, FALSE, FALSE), An("otherHost", 1, FALSE, FALSE)}
=============================================================================
