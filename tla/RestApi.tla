------------------------------ MODULE RestApi -------------------------------
(***************************************************************************)
(* An http backend, from the OpenAPI document it is registered with to the *)
(* requests its tools make (internal/gateway/resthttp).  The ingestion     *)
(* reads the document path by path under budgets, and freezes a set of     *)
(* operations and the place its credential is injected in; the dialer      *)
(* decodes the frozen set; a call fills one operation in, resolves the     *)
(* credential, looks its host up, connects, follows redirects and hands    *)
(* the answer back.  While calls run, the name of the host resolves to     *)
(* anything, the credential is rotated and the API answers what it likes.  *)
(*                                                                         *)
(* A document is a record: its paths in order, each with the parameters    *)
(* its operations inherit and an operation for some methods.  A schema is  *)
(* a name of Schemas: its own size, the schemas it holds, or the one it    *)
(* refers to.  A tool name is a sequence of words.                         *)
(***************************************************************************)
EXTENDS Naturals, Sequences, SequencesExt, FiniteSets, FiniteSetsExt

CONSTANTS Documents, IngestOptions, Schemas,
          HeaderFold,     \* foldHeader: lower case, "_" as "-", of the names in use
          LowerCase,      \* strings.ToLower of the names in use
          LegalName,      \* sanitizeName of the names it changes
          MaxDefinition, MaxSet, MaxSchemaNodes, MaxRefDepth, MaxOperations, MaxAliases, MaxToolNameLen,
          Calls, Answers, Addresses,
          MaxBody, MaxRedirects,
          MaxRotate       \* bound: rotations of the credential

VARIABLES in,         \* the ingestion
          entry,      \* the registered entry: operations, auth, base path
          up,         \* the dialled upstream, or not
          credential, \* the vault's value of the entry's secret: a version, 0 an empty value
          calls,      \* the calls
          sent,       \* the last request on the wire: to which origin and address, with what
          answered    \* the last result handed to the gateway

restVars == <<in, entry, up, credential, calls, sent, answered>>

ASSUME BudgetAssumption ==
    /\ MaxDefinition \in Nat /\ MaxSet \in Nat /\ MaxSchemaNodes \in Nat /\ MaxOperations \in Nat
    /\ MaxToolNameLen \in Nat /\ MaxToolNameLen > 3
    /\ MaxRedirects \in Nat \ {0} /\ MaxRotate \in Nat \ {0}

sanitizeName(n) == IF n \in DOMAIN LegalName THEN LegalName[n] ELSE n

\* A document as it is decoded: a parameter of JSON form has a schema, and where no
\* key is written twice no two paths have one key.  No operationId spells the hash
\* ("#") that assignNames may append.
IsParams(ps) ==
    /\ ps \in Seq(Range(ps))
    /\ \A k \in DOMAIN ps : ps[k].media # "other" => ps[k].schema \in DOMAIN Schemas /\ ps[k].text \in Nat
IsOperation(op) ==
    /\ LET name == sanitizeName(op.id) IN name \in Seq(Range(name)) /\ "#" \notin Range(name)
    /\ IsParams(op.params) /\ op.text \in Nat
    /\ op.body \in {"", "other"} \union DOMAIN Schemas /\ op.outs \in Seq({"none"} \union DOMAIN Schemas)
IsPath(p) == IsParams(p.params) /\ \A m \in DOMAIN p.ops : IsOperation(p.ops[m])

ASSUME DocumentsAssumption ==
    \A doc \in Documents :
      /\ doc.paths \in Seq(Range(doc.paths)) /\ \A i \in DOMAIN doc.paths : IsPath(doc.paths[i])
      /\ ~doc.keyTwice => \A i, j \in DOMAIN doc.paths : doc.paths[i].key = doc.paths[j].key => i = j

SetSum(f(_), S) == FoldSet(LAMBDA x, acc : f(x) + acc, 0, S)
SumOf(v) == LET upTo[k \in 0 .. Len(v)] == IF k = 0 THEN 0 ELSE upTo[k - 1] + v[k] IN upTo[Len(v)]

Methods == <<"GET", "PUT", "POST", "DELETE", "HEAD", "TRACE">>
ValidMethod(m) == m # "TRACE"
Safe(m)        == m \in {"GET", "HEAD", "OPTIONS"}       \* ClassOf

NoAuth  == [kind |-> "", name |-> ""]
NoEntry == [ops |-> {}, auth |-> NoAuth, env |-> 0, path |-> ""]
Waiting == [pc |-> "idle", op |-> <<>>, args |-> {}, cred |-> 0, at |-> "home", hops |-> 0, addrs |-> {}]

RestInit ==
    /\ in = [pc |-> "none"] /\ entry = NoEntry /\ up = FALSE
    /\ credential = 1
    /\ calls = [c \in Calls |-> Waiting] /\ sent = {} /\ answered = {}

----------------------------------------------------------------------------
(* Where the credential goes, and what may not go there.                   *)

Fold(n)  == IF n \in DOMAIN HeaderFold THEN HeaderFold[n] ELSE n
Lower(n) == IF n \in DOMAIN LowerCase THEN LowerCase[n] ELSE n

ControlHeaders == {"host", "connection", "cookie", "authorization"}
IsControlHeader(n) == Fold(n) \in ControlHeaders

\* reservedSlots: "bearer" owns the Authorization header.
SlotOK(auth) ==
    CASE auth.kind = ""       -> auth.name = ""
      [] auth.kind = "bearer" -> auth.name = ""
      [] auth.kind = "header" -> auth.name # "" /\ (IsControlHeader(auth.name) => Fold(auth.name) = "authorization")
      [] OTHER                -> auth.name # ""

AtSlot(auth, p) ==
    \/ p.in = "header" /\ auth.kind = "bearer" /\ Fold(p.name) = "authorization"
    \/ p.in = "header" /\ auth.kind = "header" /\ Fold(p.name) = Fold(auth.name)
    \/ p.in = "query" /\ auth.kind = "query" /\ Lower(p.name) = Lower(auth.name)

----------------------------------------------------------------------------
(* Schemas: translateSchema expands every $ref in place, counts and        *)
(* charges every schema it visits, and follows a chain of references while *)
(* none repeats.                                                           *)

\* References of the schemas beside this one count as seen.
DescendsMarking(n, stack) ==
    stack \union {Schemas[k].ref : k \in {j \in Schemas[n].holds : Schemas[j].ref # ""}}

\* What is on the path from the root; a schema beside this one is not.
Descends(n, stack) == stack

\* A reference that leads nowhere, or out of the document, is refused.
resolvePointer(ref) == ref \in DOMAIN Schemas

\* allOf: the branches are merged into one schema, unless they contradict.
mergeInto(s) == ~s.clash

expand[n \in DOMAIN Schemas, stack \in SUBSET DOMAIN Schemas] ==
    LET s == Schemas[n] IN
    IF s.ref # ""
    THEN IF s.ref \in stack \/ Cardinality(stack) >= MaxRefDepth \/ ~resolvePointer(s.ref)
         THEN [ok |-> FALSE, cost |-> 0, nodes |-> 1]
         ELSE LET target == expand[s.ref, stack \union {s.ref}] IN [target EXCEPT !.nodes = @ + 1]
    ELSE LET parts == [k \in s.holds |-> expand[k, Descends(n, stack)]]
         IN  [ok    |-> mergeInto(s) /\ \A k \in s.holds : parts[k].ok,
              cost  |-> s.own + SetSum(LAMBDA k : parts[k].cost, s.holds),
              nodes |-> 1 + SetSum(LAMBDA k : parts[k].nodes, s.holds)]

Expansions   == [n \in DOMAIN Schemas |-> expand[n, {}]]
Expansion(n) == Expansions[n]

\* Whatever a schema expands to, it is visited and a number of bytes is charged.
ASSUME CostAssumption ==
    \A n \in DOMAIN Schemas : Expansion(n).cost \in Nat /\ Expansion(n).nodes \in Nat \ {0}

\* in.nodes counts the schemas visited in the whole document, the dropped and the
\* skipped ones included.
translateSchema(n, spent) == Expansion(n).ok /\ spent + Expansion(n).nodes <= MaxSchemaNodes

\* What the count may be afterwards: one that does not translate ends anywhere (the
\* properties of a schema are taken in no order), and one past the budget at once.
Reached(spent, k) ==
    IF spent > MaxSchemaNodes THEN spent + 1
    ELSE IF spent + k > MaxSchemaNodes THEN MaxSchemaNodes + 1 ELSE spent + k
Visited(n, spent) ==
    LET all == Expansion(n).nodes IN
    {Reached(spent, k) : k \in IF Expansion(n).ok THEN {all} ELSE 1 .. all}

----------------------------------------------------------------------------
(* Before the first path: the bytes, the version, the auth, the base.      *)

\* The YAML or JSON text: so many aliases expanded, no key twice, at most so deep.
convert(doc)       == doc.aliases <= MaxAliases
mapping(doc)       == ~doc.keyTwice
checkDepth(doc)    == ~doc.tooDeep
parseDocument(doc) == convert(doc) /\ mapping(doc) /\ checkDepth(doc)

checkVersion(doc) == doc.version = "3"

Injectable(s) == s.kind \in {"bearer", "header", "query"}

\* auth: the operator's word, or the document's only scheme; else keyless.
Auth(doc, o) ==
    CASE o.noDerive -> NoAuth
      [] ~o.noDerive /\ o.kind # "" -> [kind |-> o.kind, name |-> o.name]
      [] OTHER -> IF Len(doc.schemes) = 1 /\ Injectable(doc.schemes[1]) THEN doc.schemes[1] ELSE NoAuth

\* servers: the host is always the operator's; the document's path is folded in
\* when the operator gave none.
ServerOK(doc) == doc.server \notin {"variable", "template"}
BasePath(doc, o) == IF o.path # "" THEN o.path ELSE IF doc.server = "none" THEN "" ELSE doc.server

Begin(doc, o) ==
    /\ in.pc = "none" /\ entry = NoEntry
    /\ in' = IF /\ parseDocument(doc) /\ checkVersion(doc)
                /\ o.kind = "" => o.name = ""
                /\ SlotOK(Auth(doc, o)) /\ ServerOK(doc) /\ Len(doc.paths) > 0
             THEN [pc |-> "path", doc |-> doc, opts |-> o, auth |-> Auth(doc, o),
                   i |-> 1, m |-> 1, pathBytes |-> 0, opBytes |-> 0, total |-> 0, nodes |-> 0,
                   drafts |-> <<>>, skipped |-> {}]
             ELSE [pc |-> "refused"]
    /\ UNCHANGED <<entry, up, credential, calls, sent, answered>>

----------------------------------------------------------------------------
(* The paths, and under each its operations.                               *)

Refuse  == in' = [pc |-> "refused"]

\* charge: the limit of a definition, and of the set with this one in it.
Over(n) == n > MaxDefinition \/ in.total + n > MaxSet

\* The node budget of the document, with k more.
Exhausted(k) == k > 0 /\ in.nodes + k > MaxSchemaNodes

\* parameters: each schema is translated and charged, its description too, up to
\* the first that has no JSON form or no expansion.
BadParam(p)     == p.media = "other" \/ ~Expansion(p.schema).ok
FirstBad(ps)    == SelectInSeq(ps, BadParam)
Served(ps)      == IF FirstBad(ps) = 0 THEN Len(ps) ELSE FirstBad(ps) - 1
Unserved(ps)    == FirstBad(ps) # 0 /\ ps[FirstBad(ps)].media = "other"
Invalid(ps)     == FirstBad(ps) # 0 /\ ~Unserved(ps)
ParamsCost(ps)  == SumOf([k \in 1 .. Served(ps) |-> Expansion(ps[k].schema).cost + ps[k].text])
ParamsNodes(ps) == SumOf([k \in 1 .. Served(ps) |-> Expansion(ps[k].schema).nodes])

Path == in.doc.paths[in.i]

\* A vendor extension among the paths is passed over.
EnterPath ==
    /\ in.pc = "path" /\ in.i <= Len(in.doc.paths)
    /\ IF Path.kind = "vendor" THEN in' = [in EXCEPT !.i = @ + 1]
       ELSE IF \/ Path.kind = "bad" \/ Over(ParamsCost(Path.params)) \/ Exhausted(ParamsNodes(Path.params))
               \/ Invalid(Path.params)
       THEN Refuse
       ELSE in' = [in EXCEPT !.pc = "op", !.m = 1, !.pathBytes = ParamsCost(Path.params),
                             !.nodes = @ + ParamsNodes(Path.params)]
    /\ UNCHANGED <<entry, up, credential, calls, sent, answered>>

Declares(from, ps) == {[from |-> from, at |-> k, in |-> ps[k].in, name |-> ps[k].name] : k \in DOMAIN ps}

\* A parameter of the path is inherited unless the operation has one of that name
\* in the same place.
mergeParams(inherited, own) ==
    Declares("operation", own)
      \union {p \in Declares("path", inherited) : ~ \E k \in DOMAIN own : own[k].in = p.in /\ own[k].name = p.name}

IgnoredHeader(p) == p.in = "header" /\ Lower(p.name) \in {"accept", "content-type", "authorization"}
OurParams(ps, auth) == {p \in ps : ~AtSlot(auth, p) /\ ~IgnoredHeader(p)}
SameParam(p, q) == p.in = q.in /\ p.name = q.name

\* outputSchema: every 2xx body must agree; the first that does not ends it.  A body
\* past the node budget is one that does not translate: it is dropped, not refused.
OutNodes(outs, k) == SumOf([j \in 1 .. k |-> Expansion(outs[j]).nodes])
Dropped(outs, k, spent) ==
    \/ outs[k] = "none"
    \/ ~translateSchema(outs[k], spent + OutNodes(outs, k - 1)) \/ ~Schemas[outs[k]].object
    \/ outs[k] # outs[1]
Tried(outs, spent) == {k \in DOMAIN outs : \A j \in 1 .. k - 1 : ~Dropped(outs, j, spent)}

\* The next operation starts from what the last one had reached.
StartBytesCarried == IF in.opBytes > in.pathBytes THEN in.opBytes ELSE in.pathBytes

\* Every operation starts from what its path's parameters cost.
StartBytes == in.pathBytes

\* What an operation has charged, and the document visited, once its own parameters
\* are read, its properties are keyed and its body is translated.
KeptParams(op)  == OurParams(mergeParams(Path.params, op.params), in.auth)
HasTwice(op)    == \E p, q \in KeptParams(op) : p # q /\ SameParam(p, q)
OwnBytes(op)    == StartBytes + ParamsCost(op.params)
OwnNodes(op)    == in.nodes + ParamsNodes(op.params)
KeyedBytes(op)  == OwnBytes(op) + Cardinality(KeptParams(op))
JSONBody(op)    == op.body \notin {"", "other"}
BodyBytes(op)   == KeyedBytes(op) + (IF JSONBody(op) THEN Expansion(op.body).cost + op.text ELSE 0)
BodyNodes(op)   == OwnNodes(op) + (IF JSONBody(op) THEN Expansion(op.body).nodes ELSE 0)

\* The outputs: each candidate is charged from what the body has reached, and only
\* the agreed one, if it compiles, stays charged.
Outs(op, m)     == IF m \in {"HEAD", "OPTIONS"} THEN <<>> ELSE op.outs
Agreed(op, m)   == /\ Outs(op, m) # <<>> /\ op.compiles
                   /\ \A k \in DOMAIN op.outs : ~Dropped(op.outs, k, BodyNodes(op))
OutBytes(op, m) == IF Agreed(op, m) THEN Expansion(op.outs[1]).cost ELSE 0
AllBytes(op, m) == BodyBytes(op) + OutBytes(op, m)

\* A candidate that runs over the bytes is refused; one that does not translate
\* may have, by then.
Candidates(op, m) == {k \in Tried(Outs(op, m), BodyNodes(op)) : Outs(op, m)[k] # "none"}
OverWith(op, k)   == Over(BodyBytes(op) + Expansion(op.outs[k]).cost)
Overruns(op, m)   == \E k \in Candidates(op, m) :
    OverWith(op, k) /\ translateSchema(op.outs[k], BodyNodes(op) + OutNodes(op.outs, k - 1))
MayOverrun(op, m) == \E k \in Candidates(op, m) : OverWith(op, k)

\* What the document has visited once the last output was tried.
LastTried(outs, spent) == {k \in Tried(outs, spent) : k = Len(outs) \/ Dropped(outs, k, spent)}
NodesAfter(op, m) ==
    LET outs  == Outs(op, m)
        spent == BodyNodes(op)
    IN  IF outs = <<>> THEN {spent}
        ELSE UNION {LET had == spent + OutNodes(outs, k - 1) IN
                    IF outs[k] = "none" THEN {had} ELSE Visited(outs[k], had) : k \in LastTried(outs, spent)}

\* DefinitionSize, without the name.
Size(op, m) == op.size + OutBytes(op, m)

Draft(op, m) ==
    [id |-> op.id, method |-> m, path |-> Path.key, templates |-> Path.templates,
     params |-> {[in |-> p.in, name |-> p.name] : p \in KeptParams(op)},
     body |-> op.body # "", output |-> Agreed(op, m), bytes |-> AllBytes(op, m),
     size |-> Size(op, m), accepted |-> op.accepted]

Skipped(bytes, nodes) == [is |-> "skip", bytes |-> bytes, nodes |-> nodes]
NotTaken              == [is |-> "refuse"]

Operation(op, m) ==
    IF op.body # "" /\ Safe(m) THEN Skipped(StartBytes, in.nodes)
    ELSE IF Over(OwnBytes(op)) \/ Exhausted(ParamsNodes(op.params)) \/ Invalid(op.params) THEN NotTaken
    ELSE IF Unserved(op.params) THEN Skipped(OwnBytes(op), OwnNodes(op))
    ELSE IF Over(KeyedBytes(op)) \/ HasTwice(op) THEN NotTaken
    ELSE IF op.body = "other" THEN Skipped(KeyedBytes(op), OwnNodes(op))
    ELSE IF JSONBody(op) /\ ~translateSchema(op.body, OwnNodes(op)) THEN NotTaken
    ELSE IF Over(BodyBytes(op)) \/ Overruns(op, m) \/ Size(op, m) > MaxDefinition THEN NotTaken
    ELSE [is |-> "draft", bytes |-> AllBytes(op, m), draft |-> Draft(op, m)]

\* The methods of a path in methodOrder; the last one leads to the next path.
EachMethod ==
    /\ in.pc = "op"
    /\ LET m    == Methods[in.m]
           next == IF in.m = Len(Methods) THEN [in EXCEPT !.pc = "path", !.i = @ + 1]
                   ELSE [in EXCEPT !.m = @ + 1]
           skip == [next EXCEPT !.skipped = @ \union {<<m, Path.key>>}]
       IN  IF m \notin DOMAIN Path.ops THEN in' = next
           ELSE IF ~ValidMethod(m) \/ Unserved(Path.params) THEN in' = skip
           ELSE IF Len(in.drafts) >= MaxOperations THEN Refuse
           ELSE LET r == Operation(Path.ops[m], m) IN
                CASE r.is = "refuse" -> Refuse
                  [] r.is = "skip"   -> in' = [skip EXCEPT !.opBytes = r.bytes, !.nodes = r.nodes]
                  [] OTHER           ->
                       \/ \E n \in NodesAfter(Path.ops[m], m) :
                            in' = [next EXCEPT !.drafts = Append(@, r.draft), !.opBytes = r.bytes,
                                               !.total = @ + r.bytes, !.nodes = n]
                       \/ MayOverrun(Path.ops[m], m) /\ Refuse
    /\ UNCHANGED <<entry, up, credential, calls, sent, answered>>

----------------------------------------------------------------------------
(* The end of the document: names, validation, the frozen set.             *)

\* The operationId, or the method and the path.
BaseName(d) ==
    IF sanitizeName(d.id) # <<>> THEN sanitizeName(d.id) ELSE sanitizeName(<<d.method, d.path>>)

\* hashSuffix, after as much of the name as leaves it room.
Cut(n, room) == IF Len(n) > room THEN SubSeq(n, 1, room) ELSE n
Hashed(d)    == Cut(BaseName(d), MaxToolNameLen - 3) \o <<"#", d.method, d.path>>

\* assignNames: a name too long, or one that two operations would have, goes to
\* nobody; each has its method and path hashed onto it.
Name(ds, k) ==
    IF \/ Len(BaseName(ds[k])) > MaxToolNameLen
       \/ \E j \in DOMAIN ds \ {k} : BaseName(ds[j]) = BaseName(ds[k])
    THEN Hashed(ds[k]) ELSE BaseName(ds[k])

ValidToolName(n) == n # <<>> /\ Len(n) <= MaxToolNameLen
NamesDiffer(ds) == \A j, k \in DOMAIN ds : Name(ds, j) = Name(ds, k) => j = k

In(d, where) == {p.name : p \in {q \in d.params : q.in = where}}

\* validateInputSchema.
Valid(d, auth) ==
    /\ In(d, "path") = d.templates
    /\ \A n \in In(d, "header") : ~IsControlHeader(n)
    /\ \A m, n \in In(d, "header") : Fold(m) = Fold(n) => m = n
    /\ \A m, n \in In(d, "cookie") : Lower(m) = Lower(n) => m = n
    /\ \A p \in d.params : ~AtSlot(auth, p)
    /\ d.body => ~Safe(d.method)

Validate(ops, auth) == SlotOK(auth) /\ ops # {} /\ \A d \in ops : Valid(d, auth)

\* Decode of the frozen set, at registration and again at every dial.
Decodes(ops, auth) == Validate(ops, auth)

Named(ds) == {[method |-> ds[k].method, path |-> ds[k].path, templates |-> ds[k].templates,
               params |-> ds[k].params, body |-> ds[k].body, name |-> Name(ds, k)] : k \in DOMAIN ds}

\* ingestHTTP takes the auth and the base from the result.
Frozen(ops) == [ops |-> ops, auth |-> in.auth, env |-> in.opts.env, path |-> BasePath(in.doc, in.opts)]

\* validateHTTP: a keyed entry has one secret, a keyless one none.
Registers(e) == e.env = IF e.auth.kind = "" THEN 0 ELSE 1

\* DefinitionSize of a named operation, CheckInputSchema, and the encoded set.
NamedSize(ds, k) == ds[k].size + Len(Name(ds, k))
Servable(ds)     == \A k \in DOMAIN ds : NamedSize(ds, k) <= MaxDefinition /\ ds[k].accepted
SetFits(ds)      == SumOf([k \in DOMAIN ds |-> NamedSize(ds, k)]) <= MaxSet

Freeze ==
    /\ in.pc = "path" /\ in.i > Len(in.doc.paths)
    /\ LET ops == Named(in.drafts) IN
       IF /\ in.drafts # <<>> /\ NamesDiffer(in.drafts)
          /\ \A k \in DOMAIN in.drafts : ValidToolName(Name(in.drafts, k))
          /\ Servable(in.drafts) /\ SetFits(in.drafts)
          /\ Decodes(ops, in.auth) /\ Registers([auth |-> in.auth, env |-> in.opts.env])
       THEN entry' = Frozen(ops) /\ in' = [in EXCEPT !.pc = "done"]
       ELSE Refuse /\ UNCHANGED entry
    /\ UNCHANGED <<up, credential, calls, sent, answered>>

----------------------------------------------------------------------------
(* The dialled upstream and its calls.                                     *)

\* secretRef and Decode; the base is taken to parse and to name no literal address.
DialOK(e) == Registers(e) /\ Decodes(e.ops, e.auth)

Dial ==
    /\ entry # NoEntry /\ ~up /\ DialOK(entry) /\ up' = TRUE
    /\ UNCHANGED <<in, entry, credential, calls, sent, answered>>

Props(d) == d.params \union IF d.body THEN {[in |-> "body", name |-> "body"]} ELSE {}

Becomes(c, r) == calls' = [calls EXCEPT ![c] = r]

\* fillPath: an argument for every template.
PathFilled(d, args) == d.templates \subseteq {a.name : a \in {b \in args : b.in = "path"}}

\* buildRequest: declared arguments only.
Call(c, d, args) ==
    /\ up /\ calls[c].pc = "idle" /\ d \in entry.ops
    /\ args \subseteq Props(d) /\ PathFilled(d, args)
    /\ Becomes(c, [calls[c] EXCEPT !.pc = "resolve", !.op = d.name, !.args = args])
    /\ sent' = {} /\ answered' = {}
    /\ UNCHANGED <<in, entry, up, credential>>

\* The secret as it is now; an empty one ends the call.
Resolve(c) ==
    /\ calls[c].pc = "resolve"
    /\ IF entry.auth.kind # "" /\ credential = 0 THEN Becomes(c, Waiting)
       ELSE Becomes(c, [calls[c] EXCEPT !.pc = "lookup", !.cred = IF entry.auth.kind = "" THEN 0 ELSE credential])
    /\ UNCHANGED <<in, entry, up, credential, sent, answered>>

\* What the host's name resolves to is anyone's, and may change between two looks.
Lookup(c, found) ==
    /\ calls[c].pc = "lookup"
    /\ Becomes(c, [calls[c] EXCEPT !.pc = "dial", !.addrs = found])
    /\ UNCHANGED <<in, entry, up, credential, sent, answered>>

\* Loopback, private, link-local, this network, multicast, and an IPv4 address of
\* one of these inside a NAT64 or 6to4 address; a zone.
refuseAddr(a) == a.zone \/ (IF a.embeds # "" THEN a.embeds # "public" ELSE a.range # "public")

\* dialPinned: one address of them that is refused refuses the host; then the
\* first that accepts a connection, which controlCheck looks at again.
Connect(c) ==
    /\ calls[c].pc = "dial"
    /\ \/ \E a \in calls[c].addrs :
            /\ \A b \in calls[c].addrs : ~refuseAddr(b)
            /\ sent' = {[origin |-> calls[c].at, addr |-> a, cred |-> calls[c].cred, args |-> calls[c].args]}
            /\ Becomes(c, [calls[c] EXCEPT !.pc = "answer", !.addrs = {}])
       \/ Becomes(c, Waiting) /\ UNCHANGED sent      \* refused, or nothing answers
    /\ UNCHANGED <<in, entry, up, credential, answered>>

\* originOf: scheme, host and port.
SameOrigin(origin) == origin = "home"

\* checkRedirect: another origin is an error; after MaxRedirects the redirect
\* itself is the answer.
Redirect(c, a) ==
    /\ calls[c].pc = "answer" /\ a.redirect # ""
    /\ IF ~SameOrigin(a.redirect) THEN Becomes(c, Waiting)
       ELSE IF calls[c].hops + 1 >= MaxRedirects THEN Becomes(c, [calls[c] EXCEPT !.pc = "read"])
       ELSE Becomes(c, [calls[c] EXCEPT !.pc = "lookup", !.at = a.redirect, !.hops = @ + 1])
    /\ UNCHANGED <<in, entry, up, credential, sent, answered>>

\* What the vault holds by now.
MaskWithVault(c, v) == IF v = credential THEN 0 ELSE v

\* serialize and scrubCallError mask the value this call has sent.
Mask(c, v) == IF v = calls[c].cred THEN 0 ELSE v

\* readBody reads one byte past the limit to tell.
ReadBody(n) == [fits |-> n <= MaxBody, bytes |-> n]

Answer(c, a) ==
    /\ \/ calls[c].pc = "answer" /\ a.redirect = ""
       \/ calls[c].pc = "read" /\ a.redirect # ""
    /\ LET r    == ReadBody(a.bytes)
           echo == IF a.echoes THEN calls[c].cred ELSE 0
       IN  answered' =
             {[call |-> c, echo |-> Mask(c, echo), used |-> calls[c].cred, error |-> a.failed \/ ~r.fits,
               of |-> a.bytes, bytes |-> IF a.failed \/ ~r.fits THEN 0 ELSE r.bytes]}
    /\ Becomes(c, Waiting)
    /\ UNCHANGED <<in, entry, up, credential, sent>>

Rotated(v) ==
    /\ credential # v /\ v <= MaxRotate /\ v \in {0, credential + 1} /\ credential' = v
    /\ UNCHANGED <<in, entry, up, calls, sent, answered>>

RestNext ==
    \/ \E d \in Documents, o \in IngestOptions : Begin(d, o)
    \/ EnterPath \/ EachMethod \/ Freeze \/ Dial
    \/ \E c \in Calls :
         \/ \E d \in entry.ops : \E args \in SUBSET Props(d) : Call(c, d, args)
         \/ Resolve(c) \/ Connect(c)
         \/ \E found \in (SUBSET Addresses) \ {{}} : Lookup(c, found)
         \/ \E a \in Answers : Redirect(c, a) \/ Answer(c, a)
    \/ \E v \in 0 .. MaxRotate : Rotated(v)

RestSpec == RestInit /\ [][RestNext]_restVars

----------------------------------------------------------------------------
(* What is checked.                                                        *)

\* The state is well formed, and nothing outgrows the limits of a definition, of a
\* set and of the schemas visited, whatever the document expands to (charge,
\* translateSchema).  Past the node budget, only the output of an operation that is
\* drafted without it is looked at, once for each.
RestTypeOK ==
    /\ in.pc \in {"none", "refused", "path", "op", "done"}
    /\ in.pc \in {"path", "op", "done"} =>
         /\ in.total <= MaxSet /\ Len(in.drafts) <= MaxOperations
         /\ in.nodes <= MaxSchemaNodes + Len(in.drafts)
         /\ \A k \in DOMAIN in.drafts : in.drafts[k].bytes <= MaxDefinition
    /\ credential \in 0 .. MaxRotate /\ up \in BOOLEAN
    /\ \A c \in Calls :
         /\ calls[c].pc \in {"idle", "resolve", "lookup", "dial", "answer", "read"}
         /\ calls[c].hops < MaxRedirects /\ calls[c].cred \in 0 .. MaxRotate

PathAt(doc, key) == CHOOSE p \in Range(doc.paths) : p.key = key

\* What an operation owes, by the document alone.
Owes(doc, d) ==
    LET p  == PathAt(doc, d.path)
        op == p.ops[d.method]
    IN  d.bytes = ParamsCost(p.params) + ParamsCost(op.params) + Cardinality(d.params)
                  + (IF d.body THEN Expansion(op.body).cost + op.text ELSE 0)
                  + (IF d.output THEN Expansion(op.outs[1]).cost ELSE 0)

\* The bytes an operation pays are those of its own schemas and of its path's
\* parameters, and none that an earlier operation, a skipped one or a dropped output
\* has spent (operations: in.opBytes = pathBytes; operation: preOutput).  The nodes,
\* the bytes of the set and the number of operations are budgets of the document:
\* whether there is room for it, or for its output, does hang on what came before.
BudgetExact ==
    in.pc \in {"path", "op", "done"} =>
      /\ \A k \in DOMAIN in.drafts : Owes(in.doc, in.drafts[k])
      /\ in.total = SumOf([k \in DOMAIN in.drafts |-> in.drafts[k].bytes])

\* The schemas reached from S without following a reference, and after k of them.
Parts(n)     == IF Schemas[n].ref = "" THEN Schemas[n].holds ELSE {}
Within(S) == LET all == DOMAIN Schemas
                 grow[k \in 0 .. Cardinality(all)] ==
                   IF k = 0 THEN S ELSE LET had == grow[k - 1] IN had \union UNION {Parts(n) : n \in had}
             IN  grow[Cardinality(all)]
Refs(S)      == {Schemas[n].ref : n \in {m \in S : Schemas[m].ref # ""}}
AfterRefs(n) == LET after[k \in 0 .. MaxRefDepth + 1] ==
                      IF k = 0 THEN Within({n}) ELSE Within(Refs(after[k - 1]) \intersect DOMAIN Schemas)
                IN  after
Sound(S)     == Refs(S) \subseteq DOMAIN Schemas /\ \A n \in S : ~Schemas[n].clash

\* The walks of each length that start at a schema, by where they end.
Leads(n, m) == m \in Parts(n) \/ m = Schemas[n].ref
WalksFrom(n) ==
    LET all == DOMAIN Schemas
        ends[k \in 0 .. Cardinality(all)] ==
          IF k = 0 THEN [m \in all |-> IF m = n THEN 1 ELSE 0]
          ELSE LET had == ends[k - 1] IN [m \in all |-> SetSum(LAMBDA j : had[j], {j \in all : Leads(j, m)})]
    IN  SetSum(LAMBDA k : SetSum(LAMBDA m : ends[k][m], all), DOMAIN ends)

\* The schemas that may be expanded at all, and how many schemas each stands for.
Expandable == {n \in DOMAIN Schemas : LET after == AfterRefs(n) IN
                 after[MaxRefDepth + 1] = {} /\ \A k \in 0 .. MaxRefDepth : Sound(after[k])}
StandsFor  == [n \in Expandable |-> WalksFrom(n)]

\* A schema is refused for a cause of its own or for what is left, and for nothing
\* else: a walk through it crosses more references than MaxRefDepth (a cycle among
\* them), a part is unsound, or its walks are more than the nodes the document has
\* left.  One that two others refer to is expanded, and counted, in both
\* (translateSchema: the stack is the path from the root, in.nodes is the
\* document's).
RefusedForCause ==
    in.pc \in {"path", "op"} =>
      \A n \in DOMAIN Schemas :
        translateSchema(n, in.nodes) <=> n \in Expandable /\ in.nodes + StandsFor[n] <= MaxSchemaNodes

\* No two tools of an entry share a name, and a name two operations ask for with
\* their operationId is neither's: which operation a name reaches does not hang
\* on the order of the document (assignNames).
NamesNobodyWins ==
    /\ \A d, e \in entry.ops : d.name = e.name => d = e
    /\ entry # NoEntry =>
         \A j, k \in DOMAIN in.drafts :
           LET asked == sanitizeName(in.drafts[j].id) IN
           j # k /\ asked # <<>> /\ asked = sanitizeName(in.drafts[k].id) =>
             \A d \in entry.ops : d.name = asked =>
               <<d.method, d.path>> # <<in.drafts[j].method, in.drafts[j].path>>

\* An entry that was registered can be dialled: the auth frozen with it is the one
\* its operations were validated against (Ingest, ingestHTTP).
FrozenDials == entry # NoEntry => DialOK(entry)

CredentialHeader == IF entry.auth.kind = "bearer" THEN "authorization" ELSE Fold(entry.auth.name)

\* No argument of a call lands where the gateway puts the credential, in whatever
\* case or spelling the document names it (reservedSlots, Valid).
SlotIsOurs ==
    \A s \in sent : \A a \in s.args :
        /\ a.in = "header" /\ entry.auth.kind \in {"bearer", "header"} => Fold(a.name) # CredentialHeader
        /\ a.in = "query" /\ entry.auth.kind = "query" => Lower(a.name) # Lower(entry.auth.name)

\* A request goes to the registered origin only: no redirect carries the credential
\* to another scheme, host or port (checkRedirect).
CredentialStaysHome == \A s \in sent : s.origin = "home"

\* A request reaches no address inside, whatever the name resolves to and when, and
\* whatever the address is wrapped in (dialPinned, refuseAddr).
NothingInside ==
    \A s \in sent : IF s.addr.embeds = "" THEN s.addr.range = "public" ELSE s.addr.embeds = "public"

\* The value a call has sent never comes back in what the call hands on, also when
\* the vault has another by then (serialize, scrubCallError).
EchoIsMasked == \A r \in answered : r.used # 0 => r.echo # r.used

\* A result is the whole body or an error, at the limit too (readBody).
WholeOrRefused == \A r \in answered : r.error \/ r.bytes = r.of

(* What is read of a document stays within the budgets of an operation and *)
(* of the document, an operation pays for nothing of another's, its name   *)
(* does not hang on the order of the document, and what is frozen can be   *)
(* dialled (Ingest, assignNames, translateSchema, operations).             *)
TranslationIsFair ==
    RestTypeOK /\ BudgetExact /\ NamesNobodyWins /\ FrozenDials

(* The credential of an entry goes to that entry's origin, in the slot the *)
(* gateway chose, and does not come back; results are whole (checkRedirect,*)
(* dialPinned, serialize, readBody).                                       *)
CallsAreContained ==
    SlotIsOurs /\ CredentialStaysHome /\ NothingInside /\ EchoIsMasked /\ WholeOrRefused

----------------------------------------------------------------------------
(* The inductive invariant of the translation.                             *)

Reading == in.pc \in {"path", "op", "done"}

\* A draft is an operation of the document and asks for the name it has there.
FromDocument(doc, d) ==
    \E i \in DOMAIN doc.paths :
      LET p == doc.paths[i] IN d.path = p.key /\ d.method \in DOMAIN p.ops /\ d.id = p.ops[d.method].id

DraftHolds(doc, d) ==
    FromDocument(doc, d) /\ d.bytes \in Nat /\ d.bytes <= MaxDefinition /\ Owes(doc, d)

\* What was drafted so far, and what it has cost.
DraftsHold ==
    /\ in.drafts \in Seq(Range(in.drafts)) /\ Len(in.drafts) <= MaxOperations
    /\ \A k \in DOMAIN in.drafts : DraftHolds(in.doc, in.drafts[k])
    /\ in.total \in Nat /\ in.total <= MaxSet
    /\ in.total = SumOf([k \in DOMAIN in.drafts |-> in.drafts[k].bytes])
    /\ in.nodes \in Nat /\ in.nodes <= MaxSchemaNodes + Len(in.drafts)

\* Where the reading is, and what the parameters of this path have cost.
PlaceHolds ==
    /\ in.i \in 1 .. Len(in.doc.paths) + 1 /\ in.m \in 1 .. Len(Methods)
    /\ in.pc = "op" => in.i <= Len(in.doc.paths) /\ in.pathBytes = ParamsCost(Path.params)

IsReading ==
    DOMAIN in = {"pc", "doc", "opts", "auth", "i", "m", "pathBytes", "opBytes", "total", "nodes", "drafts", "skipped"}

ReadingInv ==
    /\ in.pc \in {"none", "refused", "path", "op", "done"}
    /\ Reading => IsReading /\ in.doc \in Documents /\ ~in.doc.keyTwice /\ DraftsHold /\ PlaceHolds

\* What is registered is the drafts under the names they were given.
EntryInv == entry # NoEntry => in.pc = "done" /\ entry.ops = Named(in.drafts) /\ NamesDiffer(in.drafts)

\* The calls and the credential are within their bounds.
CallTypes ==
    /\ credential \in 0 .. MaxRotate /\ up \in BOOLEAN
    /\ \A c \in Calls :
         /\ calls[c].pc \in {"idle", "resolve", "lookup", "dial", "answer", "read"}
         /\ calls[c].hops \in Nat /\ calls[c].hops < MaxRedirects /\ calls[c].cred \in 0 .. MaxRotate

TranslationInv == ReadingInv /\ EntryInv /\ CallTypes

----------------------------------------------------------------------------
(* The inductive invariant of the calls.                                   *)

\* The arguments are declared by an operation of the entry.
Declared(args) == \E d \in entry.ops : args \subseteq Props(d)

IsCall(r) == DOMAIN r = {"pc", "op", "args", "cred", "at", "hops", "addrs"}

\* A call under way is of a frozen operation and at home.
CallHolds(c) ==
    /\ IsCall(calls[c]) /\ calls[c].at = "home"
    /\ calls[c].pc # "idle" => Declared(calls[c].args)

\* What is on the wire was declared, and went to an address that may be reached.
SentHolds == \A s \in sent : Declared(s.args) /\ s.origin = "home" /\ ~refuseAddr(s.addr)

\* Nothing is registered before the document is frozen.
NothingYet == in.pc \in {"path", "op"} => entry = NoEntry

CallsInv ==
    /\ NothingYet /\ FrozenDials /\ DOMAIN calls = Calls /\ (\A c \in Calls : CallHolds(c)) /\ SentHolds
    /\ EchoIsMasked /\ WholeOrRefused
=============================================================================
