------------------------------ MODULE AccessPath ------------------------------
(***************************************************************************)
(* The way of a request through the experience server, over HTTP or MCP:   *)
(* the sliding window of the rate limiter, the API key, its scopes, and    *)
(* for a shared gene the public key of its sender and the signature cache. *)
(*                                                                         *)
(* The key store, the limiter and the cache are behind locks of their own  *)
(* that a handler takes and gives back for each call: each call is a step, *)
(* and between two of them other requests revoke, rotate and register.     *)
(***************************************************************************)
EXTENDS Naturals, Sequences, FiniteSets, SequencesExt, TLC

CONSTANTS
    Reqs,           \* requests in flight
    Agents,         \* agent ids, which are also sender ids
    Clients,        \* client ids the limiter tells apart
    Hexes,          \* public keys
    Window,         \* seconds of the sliding window
    Limit,          \* requests a window admits
    KeyTtl,         \* seconds a key with a time to live is valid
    SignatureTtl,   \* seconds a verified signature is cached
    MaxKeys,        \* bound on the API keys
    MaxNow,         \* bound on the clock
    MaxStarts,      \* bound on the requests
    NoValue

ASSUME AccessAssumption ==
    /\ Clients # {}
    /\ NoValue \notin [sender : Agents, by : Hexes]
    /\ Window \in Nat \ {0}
    /\ Limit \in Nat \ {0}
    /\ KeyTtl \in Nat
    /\ SignatureTtl \in Nat
    /\ MaxKeys \in Nat
    /\ MaxNow \in Nat
    /\ MaxStarts \in Nat

ApiScopes == {"read", "write", "govern", "admin"}

\* The operations on experience assets, by what the handlers ask for and do; then
\* those on keys; list_public is GET /public-keys (the MCP tool of that name asks
\* for what list asks); fetch and share are the legacy paths.
AssetOps == {"read", "propose", "use", "govern"}
ApiKeyOps == {"list", "create", "rotate", "revoke"}
PublicKeyOps == {"register", "unregister"}
Ops == AssetOps \cup ApiKeyOps \cup PublicKeyOps \cup {"list_public", "fetch", "share"}

\* The scope of an asset operation: the list its tool is in, and what its handler
\* passes to authenticate.
AssetScope(op) == IF op \in {"read", "govern"} THEN op ELSE "write"

\* The scope a tool requires.
ToolScope(op) ==
    IF op \in AssetOps THEN AssetScope(op)
    ELSE IF op \in PublicKeyOps THEN "write" ELSE "admin"

\* The scope a handler asks for; NoValue: any valid key will do.
Required(via, op) ==
    IF via = "mcp" THEN ToolScope(op)
    ELSE IF op \in AssetOps THEN AssetScope(op) ELSE NoValue

\* The limiter a path falls under; the /v1 and /mcp paths have none.
LimiterOf(via, op) ==
    IF via = "mcp" \/ op \in AssetOps THEN NoValue
    ELSE IF op = "fetch" THEN "get_experience"
    ELSE IF op = "share" THEN "post_experience"
    ELSE "key_management"

Limiters == {"get_experience", "post_experience", "key_management"}

\* A key without scopes on record has those of an agent.
WithScopes(scopes) == IF scopes = {} THEN {"read", "write"} ELSE scopes

-----------------------------------------------------------------------------
VARIABLES
    now,        \* seconds, SystemTime and Utc::now
    windows,    \* EndpointLimiter.requests, per limiter and client
    keys,       \* api_keys, in the order of creation
    public,     \* public_keys of a sender: one entry per version
    cache,      \* signature_cache
    req,        \* the requests
    admitted,   \* every request a limiter admitted (history)
    latest,     \* the latest time a limiter was asked with (history)
    arrivals    \* requests so far (bounds the instance)

access_vars == <<now, windows, keys, public, cache, req, admitted, latest,
                 arrivals>>

\* An entry of a window is the time its request read off the clock; its number is
\* its place in the Vec, which is in the order of the pushes and not of the times.
\* overtaken: had the limiter been asked with a later time before (history)?
Entry == [number : Nat, time : Nat, overtaken : BOOLEAN]

Key == [agent : Agents, active : BOOLEAN, expires : Nat \cup {NoValue},
        scopes : SUBSET ApiScopes, known : BOOLEAN]

PublicKey == [hex : Hexes, active : BOOLEAN]

\* An envelope is told apart by its sender and the key that signed it.
Envelope == [sender : Agents, by : Hexes]

CacheEntry == [key : Seq(Agents \cup Hexes \cup Envelope), at : Nat]

AccessSteps == {"idle", "limit", "auth", "act", "lookup", "verify", "insert", "store",
          "served", "limited"}

\* stamp: what the request read off the clock. late: did it come without a key of
\* the store, or with one revoked by then? standing: was the key that signed the
\* envelope its sender's active key at some time of the request?
Request == [pc : AccessSteps, via : {"http", "mcp"}, op : Ops, key : Nat,
            client : Clients, agent : Agents \cup {NoValue}, scopes : SUBSET ApiScopes,
            env : Envelope \cup {NoValue}, hex : Hexes \cup {NoValue},
            late : BOOLEAN, standing : BOOLEAN, left : Nat, stamp : Nat]

ActiveVersions(sender) == {v \in DOMAIN public[sender] : public[sender][v].active}

AccessTypeOK ==
    /\ now \in 0..MaxNow
    /\ windows \in [Limiters \X Clients -> SUBSET Entry]
    /\ keys \in Seq(Key)
    /\ public \in [Agents -> Seq(PublicKey)]
    /\ \A e \in cache : e.at \in Nat
    /\ req \in [Reqs -> Request]
    /\ admitted \in [Limiters \X Clients -> SUBSET Entry]
    /\ latest \in [Limiters \X Clients -> Nat]
    /\ arrivals \in 0..MaxStarts

Idle == [pc |-> "idle", via |-> "http", op |-> "fetch", key |-> 0,
         client |-> CHOOSE c \in Clients : TRUE, agent |-> NoValue, scopes |-> {},
         env |-> NoValue, hex |-> NoValue, late |-> FALSE, standing |-> FALSE,
         left |-> 0, stamp |-> 0]

\* Mutant: the public key is not part of the key of the cache.
CacheKeyOfSender(env, hex) == <<env.sender, env>>

\* Sender, public key and signature. The payload the signature was verified with
\* is not part of it, nor of this model.
CacheKey(env, hex) == <<env.sender, hex, env>>

AccessStart(k, p, c, w) ==
    /\ now = 0
    /\ windows = [l \in Limiters \X Clients |-> w]
    /\ keys = k /\ public = p /\ cache = c
    /\ req = [r \in Reqs |-> Idle]
    /\ admitted = [l \in Limiters \X Clients |-> w]
    /\ latest = [l \in Limiters \X Clients |-> 0]
    /\ arrivals = 0

\* As many requests of the first second as a window admits.
FullWindow == {[number |-> n, time |-> 0, overtaken |-> FALSE] : n \in 1..Limit}

\* The server is met with the key of an operator, made with the KeyStore itself,
\* with one public key on record, before or after it has verified an envelope of
\* that sender, and before or after each client has used up its first second.
AccessInit ==
    \E a \in Agents, h \in Hexes, w \in {{}, FullWindow} :
        \E c \in {{}, {[key |-> CacheKey([sender |-> a, by |-> h], h), at |-> 0]}} :
            AccessStart(<<[agent |-> a, active |-> TRUE, expires |-> NoValue,
                           scopes |-> {"govern", "admin", "write"}, known |-> TRUE]>>,
                        [b \in Agents |-> IF a = b THEN <<[hex |-> h, active |-> TRUE]>> ELSE <<>>],
                        c, w)

\* Each step of a request also notes whether its signing key has become active.
Noted(rs, table) ==
    [r \in Reqs |->
        [rs[r] EXCEPT !.standing =
            \/ @
            \/ /\ rs[r].env # NoValue
               /\ \E v \in DOMAIN table[rs[r].env.sender] :
                     /\ table[rs[r].env.sender][v].active
                     /\ table[rs[r].env.sender][v].hex = rs[r].env.by]]

Proceed(r, step) == req' = [req EXCEPT ![r].pc = step]

\* An error response: nothing of the request is left.
Refuse(r) == req' = [req EXCEPT ![r] = Idle]

Tick == /\ now < MaxNow
        /\ now' = now + 1
        /\ UNCHANGED <<windows, keys, public, cache, req, admitted, latest, arrivals>>

-----------------------------------------------------------------------------
(* The common part of the handlers *)

\* Mutant: the window is a second short.
CleanedEarly(entries, t) == {e \in entries : e.time + Window > t + 1}

\* EndpointLimiter::check, asked with the time t: entries at or before the cutoff,
\* t - Window, go. (The subtraction saturates, which a clock that counts from 1970
\* never meets.)
Cleaned(entries, t) == {e \in entries : e.time + Window > t}

\* timestamps.first(): the entry pushed first, which need not be the oldest.
First(entries) == CHOOSE e \in entries : \A f \in entries : e.number <= f.number

\* A request asks for op with the API key k, or 0 when it has no header or one that
\* holds no key of the store.
Asks(via, op, k, c) ==
    [Idle EXCEPT !.via = via, !.op = op, !.key = k, !.client = c,
                 !.late = k = 0 \/ ~keys[k].active]

MayAsk(r, via, op, k) ==
    /\ req[r].pc = "idle"
    /\ arrivals < MaxStarts
    /\ k # 0 => k \in DOMAIN keys /\ keys[k].known
    /\ via = "mcp" => op \notin {"fetch", "share", "list_public"}

\* check_rate_limit, the first call of a handler that is limited, reads the clock
\* before it asks for the lock of the limiter.
ReadClock(r, op, k, c) ==
    /\ MayAsk(r, "http", op, k)
    /\ LimiterOf("http", op) # NoValue
    /\ arrivals' = arrivals + 1
    /\ req' = [req EXCEPT ![r] = [Asks("http", op, k, c) EXCEPT
                                    !.pc = "limit", !.stamp = now]]
    /\ UNCHANGED <<now, windows, keys, public, cache, admitted, latest>>

\* EndpointLimiter::check under the lock. fetch_experiences asks for no key and
\* goes on to read.
CheckLimit(r) ==
    LET slot == <<LimiterOf(req[r].via, req[r].op), req[r].client>>
        t    == req[r].stamp
        kept == Cleaned(windows[slot], t)
        wait == First(kept).time + Window - t
        at   == t + (IF wait > 1 THEN wait ELSE 1)
        new  == [number |-> Cardinality(admitted[slot]) + 1, time |-> t,
                 overtaken |-> t < latest[slot]]
    IN  /\ req[r].pc = "limit"
        /\ latest' = [latest EXCEPT ![slot] = IF t < @ THEN @ ELSE t]
        /\ IF Cardinality(kept) >= Limit
           THEN /\ windows' = [windows EXCEPT ![slot] = kept]
                /\ req' = [req EXCEPT ![r] =
                             [Idle EXCEPT !.pc = "limited",
                                !.left = Cardinality({e \in kept : e.time + Window > at})]]
                /\ UNCHANGED admitted
           ELSE /\ windows' = [windows EXCEPT ![slot] = kept \cup {new}]
                /\ admitted' = [admitted EXCEPT ![slot] = @ \cup {new}]
                /\ req' = [req EXCEPT
                             ![r].pc = IF req[r].op = "fetch" THEN "act" ELSE "auth",
                             ![r].stamp = 0]
        /\ UNCHANGED <<now, keys, public, cache, arrivals>>

\* Mutant: the status of the key is not looked at.
ValidUnlessExpired(k) == keys[k].expires = NoValue \/ now <= keys[k].expires

\* verify_key: known, not revoked, not expired.
Valid(k) == /\ keys[k].active
            /\ keys[k].expires = NoValue \/ now <= keys[k].expires

\* verify_key, then the scope check of authenticate or of the tool. The handler
\* keeps what it needs of the key; without a valid key it answers with an error.
Authenticated(q) ==
    IF q.key # 0 /\ Valid(q.key)
         /\ Required(q.via, q.op) \in WithScopes(keys[q.key].scopes) \cup {NoValue}
    THEN [q EXCEPT
            !.pc = IF q.op = "share" THEN "lookup" ELSE "act",
            !.key = 0, !.via = "http",
            !.agent = IF q.op \in {"share", "use"} \cup PublicKeyOps
                      THEN keys[q.key].agent ELSE NoValue,
            !.scopes = IF q.op = "create" THEN WithScopes(keys[q.key].scopes) ELSE {}]
    ELSE Idle

\* verify_key in a handler the limiter has admitted.
Authenticate(r) ==
    /\ req[r].pc = "auth"
    /\ req[r].op # "list_public"
    /\ req' = [req EXCEPT ![r] = Authenticated(req[r])]
    /\ UNCHANGED <<now, windows, keys, public, cache, admitted, latest, arrivals>>

\* list_public_keys asks that the header be there, and never has its key verified.
HeaderThere(r) ==
    /\ req[r].pc = "auth"
    /\ req[r].op = "list_public"
    /\ \/ Proceed(r, "act")
       \/ req[r].key = 0 /\ Refuse(r)
    /\ UNCHANGED <<now, windows, keys, public, cache, admitted, latest, arrivals>>

\* The /v1 and /mcp paths have no limiter: verify_key is their first call.
ArriveUnlimited(r, via, op, k, c) ==
    /\ MayAsk(r, via, op, k)
    /\ LimiterOf(via, op) = NoValue
    /\ arrivals' = arrivals + 1
    /\ req' = [req EXCEPT ![r] = Authenticated(Asks(via, op, k, c))]
    /\ UNCHANGED <<now, windows, keys, public, cache, admitted, latest>>

\* fetch_experiences: a search of the genes, for anyone.
Fetch(r) ==
    /\ req[r].pc = "act"
    /\ req[r].op = "fetch"
    /\ Proceed(r, "served")
    /\ UNCHANGED <<now, windows, keys, public, cache, admitted, latest, arrivals>>

\* A search, a get, a projection, a list of keys or of public keys.
ReadAsset(r) ==
    /\ req[r].pc = "act"
    /\ req[r].op \in {"read", "list", "list_public"}
    /\ Proceed(r, "served")
    /\ UNCHANGED <<now, windows, keys, public, cache, admitted, latest, arrivals>>

\* propose: the control plane takes the bundle or rejects it.
ProposeAsset(r) ==
    /\ req[r].pc = "act"
    /\ req[r].op = "propose"
    /\ Proceed(r, "served") \/ Refuse(r)
    /\ UNCHANGED <<now, windows, keys, public, cache, admitted, latest, arrivals>>

\* begin_use and record_outcome, in the name of the key's agent: the receipt of
\* another agent is refused.
Use(r, receiptAgent) ==
    /\ req[r].pc = "act"
    /\ req[r].op = "use"
    /\ IF receiptAgent = req[r].agent THEN Proceed(r, "served") ELSE Refuse(r)
    /\ UNCHANGED <<now, windows, keys, public, cache, admitted, latest, arrivals>>

\* promote and revoke, with governance granted.
GovernAsset(r) ==
    /\ req[r].pc = "act"
    /\ req[r].op = "govern"
    /\ Proceed(r, "served") \/ Refuse(r)
    /\ UNCHANGED <<now, windows, keys, public, cache, admitted, latest, arrivals>>

-----------------------------------------------------------------------------
(* Key management *)

NewKey(agent, ttl, scopes, known) ==
    [agent |-> agent, active |-> TRUE, expires |-> IF ttl THEN now + KeyTtl ELSE NoValue,
     scopes |-> scopes, known |-> known]

\* Only a governance key delegates governance. An empty list of scopes leaves
\* the two of an agent.
CreateKey(r, agent, ttl, scopes) ==
    /\ req[r].pc = "act"
    /\ req[r].op = "create"
    /\ IF "govern" \in scopes /\ "govern" \notin req[r].scopes
       THEN Refuse(r) /\ UNCHANGED keys
       ELSE /\ Len(keys) < MaxKeys
            /\ keys' = Append(keys, NewKey(agent, ttl, scopes, TRUE))
            /\ Proceed(r, "served")
    /\ UNCHANGED <<now, windows, public, cache, admitted, latest, arrivals>>

RevokeKey(r, k) ==
    /\ req[r].pc = "act"
    /\ req[r].op = "revoke"
    /\ k \in DOMAIN keys
    /\ keys' = [keys EXCEPT ![k].active = FALSE]
    /\ Proceed(r, "served")
    /\ UNCHANGED <<now, windows, public, cache, admitted, latest, arrivals>>

\* The old key is revoked, whatever its status; then the new one is created with
\* its agent and scopes, or an error leaves a key nobody was told of, or none.
RotateKey(r, k, ttl) ==
    /\ req[r].pc = "act"
    /\ req[r].op = "rotate"
    /\ k \in DOMAIN keys
    /\ LET revoked == [keys EXCEPT ![k].active = FALSE]
           new(known) == NewKey(keys[k].agent, ttl, WithScopes(keys[k].scopes), known)
       IN  \/ /\ Len(keys) < MaxKeys
              /\ \/ keys' = Append(revoked, new(TRUE)) /\ Proceed(r, "served")
                 \/ keys' = Append(revoked, new(FALSE)) /\ Refuse(r)
           \/ keys' = revoked /\ Refuse(r)
    /\ UNCHANGED <<now, windows, public, cache, admitted, latest, arrivals>>

\* The active versions are revoked and a new one is added; an error between the
\* two statements leaves none active.
RegisterPublicKey(r, h) ==
    LET a == req[r].agent
        revoked == [v \in DOMAIN public[a] |-> [public[a][v] EXCEPT !.active = FALSE]]
    IN  /\ req[r].pc = "act"
        /\ req[r].op = "register"
        /\ \/ /\ public' = [public EXCEPT ![a] = Append(revoked, [hex |-> h, active |-> TRUE])]
              /\ req' = Noted([req EXCEPT ![r].pc = "served"], public')
           \/ /\ public' = [public EXCEPT ![a] = revoked]
              /\ Refuse(r)
        /\ UNCHANGED <<now, windows, keys, cache, admitted, latest, arrivals>>

RevokePublicKey(r) ==
    LET a == req[r].agent
    IN  /\ req[r].pc = "act"
        /\ req[r].op = "unregister"
        /\ public' = [public EXCEPT ![a] =
                [v \in DOMAIN public[a] |-> [public[a][v] EXCEPT !.active = FALSE]]]
        /\ IF public[a] = <<>> THEN Refuse(r) ELSE Proceed(r, "served")
        /\ UNCHANGED <<now, windows, keys, cache, admitted, latest, arrivals>>

-----------------------------------------------------------------------------
(* share_experience *)

\* get_public_key of the envelope's sender: the newest active version.
LookupPublicKey(r, env) ==
    /\ req[r].pc = "lookup"
    /\ \/ ActiveVersions(env.sender) = {} /\ Refuse(r)
       \/ \E v \in ActiveVersions(env.sender) :
             /\ \A u \in ActiveVersions(env.sender) : u <= v
             /\ req' = Noted([req EXCEPT ![r].env = env,
                                         ![r].hex = public[env.sender][v].hex,
                                         ![r].pc = "verify"], public)
    /\ UNCHANGED <<now, windows, keys, public, cache, admitted, latest, arrivals>>

Cached(env, hex) ==
    \E e \in cache : e.key = CacheKey(env, hex) /\ now < e.at + SignatureTtl

\* verify_envelope up to the cache: the message type and the time of the envelope
\* may be wrong; the sender has to be the agent of the key.
VerifyEnvelope(r) ==
    /\ req[r].pc = "verify"
    /\ IF req[r].env.sender # req[r].agent THEN Refuse(r)
       ELSE IF Cached(req[r].env, req[r].hex) THEN Proceed(r, "store")
       ELSE IF req[r].env.by = req[r].hex THEN Proceed(r, "insert")
       ELSE Refuse(r)
    /\ UNCHANGED <<now, windows, keys, public, cache, admitted, latest, arrivals>>

RejectEnvelope(r) ==
    /\ req[r].pc \in {"verify", "store"}
    /\ Refuse(r)
    /\ UNCHANGED <<now, windows, keys, public, cache, admitted, latest, arrivals>>

CacheSignature(r) ==
    /\ req[r].pc = "insert"
    /\ cache' = {e \in cache : e.key # CacheKey(req[r].env, req[r].hex)}
                    \cup {[key |-> CacheKey(req[r].env, req[r].hex), at |-> now]}
    /\ Proceed(r, "store")
    /\ UNCHANGED <<now, windows, keys, public, admitted, latest, arrivals>>

\* upsert_gene of the gene in the envelope.
StoreGene(r) ==
    /\ req[r].pc = "store"
    /\ Proceed(r, "served")
    /\ UNCHANGED <<now, windows, keys, public, cache, admitted, latest, arrivals>>

\* The response is sent; what the request was is forgotten.
Answer(r) ==
    /\ req[r].pc \in {"served", "limited"}
    /\ req' = [req EXCEPT ![r] = Idle]
    /\ UNCHANGED <<now, windows, keys, public, cache, admitted, latest, arrivals>>

AccessNext ==
    \/ Tick
    \/ \E r \in Reqs :
        \/ \E via \in {"http", "mcp"}, op \in Ops, k \in 0..MaxKeys, c \in Clients :
              ArriveUnlimited(r, via, op, k, c)
        \/ \E op \in Ops, k \in 0..MaxKeys, c \in Clients : ReadClock(r, op, k, c)
        \/ CheckLimit(r) \/ Authenticate(r) \/ HeaderThere(r)
        \/ Fetch(r) \/ ReadAsset(r) \/ ProposeAsset(r) \/ GovernAsset(r)
        \/ \E a \in Agents : Use(r, a)
        \/ \E a \in Agents, ttl \in BOOLEAN, s \in {{}, {"govern"}} :
              CreateKey(r, a, ttl, s)
        \/ \E k \in 1..MaxKeys : RevokeKey(r, k)
        \/ \E k \in 1..MaxKeys, ttl \in BOOLEAN : RotateKey(r, k, ttl)
        \/ \E h \in Hexes : RegisterPublicKey(r, h)
        \/ RevokePublicKey(r)
        \/ \E env \in Envelope : LookupPublicKey(r, env)
        \/ VerifyEnvelope(r) \/ RejectEnvelope(r) \/ CacheSignature(r) \/ StoreGene(r)
        \/ Answer(r)

-----------------------------------------------------------------------------
(* Properties. *)

\* No window of Window seconds, wherever it lies, admits more than Limit requests
\* of a client to an endpoint, but for those overtaken: a request that asks the
\* limiter after one with a later time finds the window pruned for that time, and
\* is admitted though its own window may be full. Counting these too, the window
\* behind the latest time never holds more than Limit. And a client told to retry
\* after so many seconds finds room then, if no other takes it (EndpointLimiter's
\* pruning and retry_after, and check_rate_limit's clock outside the lock).
RateLimitSound ==
    /\ \A slot \in Limiters \X Clients :
          /\ \A t \in 1..MaxNow :
                Cardinality({e \in admitted[slot] :
                    e.time <= t /\ e.time + Window > t /\ ~e.overtaken}) <= Limit
          /\ Cardinality({e \in admitted[slot] : e.time + Window > latest[slot]}) <= Limit
    /\ \A r \in Reqs : req[r].pc = "limited" => req[r].left < Limit

\* A request without a key of the store, or with one revoked or rotated before it
\* arrived, is served on no path, whatever happens to keys meanwhile, but for two:
\* the search of genes, which asks for no key, and the list of public keys, whose
\* handler asks for the header and never verifies the key in it.
RevokedNeverServed ==
    \A r \in Reqs : req[r].pc = "served" /\ req[r].op \notin {"fetch", "list_public"}
                      => ~req[r].late

\* A gene is published only under a public key that was its sender's active one at
\* some time of the request: neither the signature cache nor a registration or
\* revocation between lookup, verification and insert lets an older key through.
PublishedUnderActiveKey ==
    \A r \in Reqs : req[r].pc = "served" /\ req[r].op = "share" =>
        req[r].standing /\ req[r].env.sender = req[r].agent
===============================================================================
