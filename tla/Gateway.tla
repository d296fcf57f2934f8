-------------------------------- MODULE Gateway --------------------------------
(***************************************************************************)
(* api/gateway.rs, identity.rs, canonical_user.rs: what stands before a    *)
(* handler of the REST interface. enforce_contract reads the headers, the  *)
(* IdentityResolver turns the token into an identity through the hot       *)
(* context in Redis, and the tenant is compared. The canonical profiles    *)
(* use the same Redis entries, filled and dropped around PostgreSQL.       *)
(* Every await is a step; Redis and PostgreSQL may fail.                   *)
(***************************************************************************)
EXTENDS Naturals, Sequences, FiniteSets

CONSTANTS
    Tokens, UserOf,   \* the tokens IAM knows, and whose they are
    Orgs,
    HeaderMaps,       \* the requests: a value for each header
    Uuids,            \* the texts that parse as a UUID
    Callers,          \* requests in flight
    Managers,         \* calls of the CanonicalUserManager in flight
    CacheTTL, ProfileTTL, LastTime,
    MaxMoves,         \* changes of organization in IAM, all of one user
    MaxProfile,       \* versions of the profile in a behaviour
    Absent

\* The identities are kept under "iam", where a profile has its organization. Redis
\* refuses a time to live of 0.
ASSUME CacheAssumption ==
    /\ Orgs # {} /\ "iam" \notin Orgs
    /\ CacheTTL \in Nat \ {0} /\ MaxProfile \in Nat

RequiredHeaders == <<"tenant", "user", "purpose">>

VARIABLES
    iam,       \* per token, the identities IAM has held, each with its first moment
    hot,       \* the hot context in Redis: key -> entry
    clock,
    caller,    \* the requests: where they are and what they carry
    profile,   \* the row of canonical_user_profile
    manager    \* the manager's calls: where they are, and what they read

gateway_vars == <<iam, hot, clock, caller, profile, manager>>

user_context_key(tenant, user) == <<tenant, user>>

\* The text of a header after trimming, if it is readable and not blank.
HasText(h) == h.kind \in {"text", "padded"}

Optional(h) == IF HasText(h) THEN h.value ELSE Absent

Parsed(h) == IF HasText(h) /\ h.value \in Uuids THEN h.value ELSE Absent

Trace(h) == IF HasText(h) THEN h.value ELSE "generated"

-----------------------------------------------------------------------------
(* ApiContract and RequestContext: two readers of the same headers. *)

GatewayError == [missing |-> 400, empty |-> 400, identity |-> 401, unauthorized |-> 401]

\* The first header that fails decides.
from_headers(h) ==
    LET bad == {i \in 1..3 : ~HasText(h[RequiredHeaders[i]])}
        first == IF bad # {} THEN h[RequiredHeaders[CHOOSE i \in bad : \A j \in bad : i <= j]]
                 ELSE h["authorization"]
    IN IF HasText(first)
       THEN [status |-> 200, tenant |-> h["tenant"].value, user |-> h["user"].value,
             purpose |-> h["purpose"].value, agent |-> Optional(h["agent"]),
             task |-> Parsed(h["task"]), trace |-> Trace(h["trace"]),
             token |-> h["authorization"].value]
       ELSE [status |-> IF first.kind = "absent" THEN GatewayError.missing ELSE GatewayError.empty]

\* The extractor's own reader: a missing header is 401, a blank or unreadable one 400.
ContextFromHeaders(h) ==
    LET bad == {i \in 1..3 : ~HasText(h[RequiredHeaders[i]])}
        first == h[RequiredHeaders[CHOOSE i \in bad : \A j \in bad : i <= j]]
    IN IF bad = {}
       THEN [status |-> 200, tenant |-> h["tenant"].value, user |-> h["user"].value,
             purpose |-> h["purpose"].value, agent |-> Optional(h["agent"]),
             task |-> Parsed(h["task"]), trace |-> Trace(h["trace"])]
       ELSE [status |-> IF first.kind = "absent" THEN 401 ELSE 400]

\* The contract the gateway injected wins; without it the headers are read.
from_request_parts(contract, h) ==
    IF contract = Absent THEN ContextFromHeaders(h)
    ELSE [f \in (DOMAIN contract) \ {"token"} |-> contract[f]]

\* A context taken from the headers alone carries no roles.
to_resolved_identity(ctx) == [user |-> ctx.user, org |-> ctx.tenant, roles |-> {}]

-----------------------------------------------------------------------------
(* IdentityResolver. *)

\* What IAM says of a token now: an identity, or that the token is not valid.
verify_token(t) == IF t \in Tokens THEN iam[t][Len(iam[t])].id ELSE Absent

IamIdentity(t, org) == [user |-> UserOf[t], org |-> org, roles |-> {"user"}]

Live(key) == key \in DOMAIN hot

Set(key, entry) == [k \in (DOMAIN hot) \cup {key} |-> IF k = key THEN entry ELSE hot[k]]

Drop(key) == [k \in (DOMAIN hot) \ {key} |-> hot[k]]

Reply(c, status) ==
    caller' = [caller EXCEPT ![c] = [at |-> "answered", status |-> status, headers |-> @.headers]]

\* enforce_contract, up to the first await.
enforce_contract(c, h) ==
    /\ caller[c].at = "idle"
    /\ LET contract == from_headers(h)
       IN caller' = [caller EXCEPT ![c] =
            IF contract.status # 200
            THEN [at |-> "answered", status |-> contract.status, headers |-> h]
            ELSE [at |-> "lookup", headers |-> h, contract |-> contract, begun |-> clock]]
    /\ UNCHANGED <<iam, hot, clock, profile, manager>>

\* Looked up under the text of the token, where try_set_cached stores under the user's id:
\* a token that is not its user's id finds nothing, and a text that is a user's id finds
\* that user's identity, whoever sends it. A Redis error is a miss.
try_get_cached(c) ==
    /\ caller[c].at = "lookup"
    /\ LET key == user_context_key("iam", caller[c].contract.token) IN
       \/ /\ Live(key)
          /\ caller' = [caller EXCEPT ![c] =
                [at |-> "check", headers |-> @.headers, contract |-> @.contract, begun |-> @.begun,
                 id |-> hot[key].id, source |-> hot[key], read |-> clock]]
       \/ caller' = [caller EXCEPT ![c].at = "verify"]
    /\ UNCHANGED <<iam, hot, clock, profile, manager>>

\* IAM is asked, and may also be out of reach.
Verify(c) ==
    /\ caller[c].at = "verify"
    /\ LET id == verify_token(caller[c].contract.token) IN
       \/ /\ id # Absent
          /\ caller' = [caller EXCEPT ![c] =
                [at |-> "store", headers |-> @.headers, contract |-> @.contract, begun |-> @.begun,
                 id |-> id]]
       \/ Reply(c, GatewayError.identity)
    /\ UNCHANGED <<iam, hot, clock, profile, manager>>

\* Stored under the user's id; a failed write is ignored.
try_set_cached(c) ==
    /\ caller[c].at = "store"
    /\ LET entry == [id |-> caller[c].id, begun |-> caller[c].begun, stored |-> clock,
                     expires |-> clock + CacheTTL]
       IN /\ \/ hot' = Set(user_context_key("iam", caller[c].id.user), entry)
             \/ UNCHANGED hot
          /\ caller' = [caller EXCEPT ![c] =
                [at |-> "check", headers |-> @.headers, contract |-> @.contract, begun |-> @.begun,
                 id |-> @.id, source |-> entry, read |-> clock]]
    /\ UNCHANGED <<iam, clock, profile, manager>>

\* The tenant of the header must be the identity's; then the handler runs.
CheckTenant(c) ==
    /\ caller[c].at = "check"
    /\ IF caller[c].id.org # caller[c].contract.tenant
       THEN Reply(c, GatewayError.unauthorized)
       ELSE caller' = [caller EXCEPT ![c] =
              [at |-> "forwarded", headers |-> @.headers, contract |-> @.contract, id |-> @.id,
               source |-> @.source, read |-> @.read,
               ctx |-> from_request_parts(@.contract, @.headers)]]
    /\ UNCHANGED <<iam, hot, clock, profile, manager>>

\* The request ends, and another may come.
Respond(c) ==
    /\ caller[c].at \in {"forwarded", "answered"}
    /\ caller' = [caller EXCEPT ![c] = [at |-> "idle"]]
    /\ UNCHANGED <<iam, hot, clock, profile, manager>>

\* IAM moves a user to another organization (external).
IamChanges(t, org) ==
    /\ verify_token(t).org # org
    /\ Len(iam[t]) <= MaxMoves /\ \A s \in Tokens \ {t} : Len(iam[s]) = 1
    /\ iam' = [iam EXCEPT ![t] = Append(@, [from |-> clock, id |-> IamIdentity(t, org)])]
    /\ UNCHANGED <<hot, clock, caller, profile, manager>>

\* Redis drops what has expired.
TimeTicks ==
    /\ clock < LastTime
    /\ clock' = clock + 1
    /\ hot' = [k \in {x \in DOMAIN hot : hot[x].expires > clock + 1} |-> hot[k]]
    /\ UNCHANGED <<iam, caller, profile, manager>>

-----------------------------------------------------------------------------
(* CanonicalUserManager: one user's profile. *)

ProfileKey(org) == user_context_key(org, profile.user)

Alone == [p \in Managers |-> [at |-> "idle"]]

\* UserRepo::get_by_id, then populate_cache.
get_context(p) ==
    /\ manager[p].at = "idle" /\ profile.version > 0
    /\ manager' = [manager EXCEPT ![p] = [at |-> "fill", version |-> profile.version,
                                          org |-> profile.org, overtaken |-> FALSE]]
    /\ UNCHANGED <<iam, hot, clock, caller, profile>>

\* Best effort: the error is logged.
populate_cache(p) ==
    /\ manager[p].at = "fill"
    /\ \/ hot' = Set(ProfileKey(manager[p].org),
                     [version |-> manager[p].version, overtaken |-> manager[p].overtaken,
                      expires |-> clock + ProfileTTL])
       \/ UNCHANGED hot
    /\ manager' = [manager EXCEPT ![p] = [at |-> "idle"]]
    /\ UNCHANGED <<iam, clock, caller, profile>>

\* Fills under way have read what is now replaced.
Overtake(f) == [p \in Managers |-> IF f[p].at = "fill" THEN [f[p] EXCEPT !.overtaken = TRUE] ELSE f[p]]

\* UserRepo::upsert: the stored version counts up, whatever version the caller gave.
upsert(p, org) ==
    /\ manager[p].at = "idle" /\ profile.version < MaxProfile
    /\ profile' = [profile EXCEPT !.version = @ + 1, !.org = org]
    /\ manager' = [Overtake(manager) EXCEPT ![p] = [at |-> "drop", org |-> org]]
    /\ UNCHANGED <<iam, hot, clock, caller>>

\* Nothing is dropped, as a mutant.
ForgetToInvalidate(p) ==
    /\ manager[p].at = "drop"
    /\ manager' = [manager EXCEPT ![p] = [at |-> "idle"]]
    /\ UNCHANGED <<iam, hot, clock, caller, profile>>

\* Best effort, for the organization just written.
invalidate_cache_best_effort(p) ==
    /\ manager[p].at = "drop"
    /\ \/ hot' = Drop(ProfileKey(manager[p].org)) /\ UNCHANGED profile
       \/ profile' = [profile EXCEPT !.lost = profile.version] /\ UNCHANGED hot
    /\ manager' = [manager EXCEPT ![p] = [at |-> "idle"]]
    /\ UNCHANGED <<iam, clock, caller>>

\* The row only; the cached copy is left.
update_consent(p) ==
    /\ manager[p].at = "idle" /\ profile.version \in 1..(MaxProfile - 1)
    /\ profile' = [profile EXCEPT !.version = @ + 1, !.consent = profile.version + 1]
    /\ manager' = Overtake(manager)
    /\ UNCHANGED <<iam, hot, clock, caller>>

\* CanonicalUserManager::invalidate_cache.
invalidate_context(org) ==
    /\ ProfileKey(org) \in DOMAIN hot
    /\ hot' = Drop(ProfileKey(org))
    /\ UNCHANGED <<iam, clock, caller, profile, manager>>

\* IdentityResolver::invalidate_cache: the same entry, the profile's, and not the
\* identity's, which is kept under "iam".
invalidate_cache(user, org) ==
    /\ user_context_key(org, user) \in DOMAIN hot
    /\ hot' = Drop(user_context_key(org, user))
    /\ UNCHANGED <<iam, clock, caller, profile, manager>>

-----------------------------------------------------------------------------

GatewayInit ==
    /\ iam = [t \in Tokens |-> <<[from |-> 0, id |-> IamIdentity(t, CHOOSE o \in Orgs : TRUE)]>>]
    /\ hot = <<>> /\ clock = 0
    /\ caller = [c \in Callers |-> [at |-> "idle"]]
    /\ profile = [user |-> CHOOSE u \in {UserOf[t] : t \in Tokens} : TRUE, version |-> 0,
                  org |-> CHOOSE o \in Orgs : TRUE, consent |-> 0, lost |-> 0]
    /\ manager = Alone

GatewayNext ==
    \/ \E c \in Callers :
         \/ \E h \in HeaderMaps : enforce_contract(c, h)
         \/ try_get_cached(c) \/ Verify(c) \/ try_set_cached(c) \/ CheckTenant(c) \/ Respond(c)
    \/ \E t \in Tokens, org \in Orgs : IamChanges(t, org)
    \/ TimeTicks

ProfileNext ==
    \/ \E p \in Managers :
         \/ get_context(p) \/ populate_cache(p) \/ invalidate_cache_best_effort(p)
         \/ update_consent(p) \/ \E org \in Orgs : upsert(p, org)
    \/ \E org \in Orgs : invalidate_context(org) \/ invalidate_cache(profile.user, org)
    \/ TimeTicks

-----------------------------------------------------------------------------

\* The identities IAM held for a token at some moment from a to b.
Held(t, a, b) ==
    {iam[t][i].id : i \in {j \in 1..Len(iam[t]) :
        iam[t][j].from <= b /\ (j < Len(iam[t]) => iam[t][j + 1].from >= a)}}

\* The tokens a text stands for: itself, and in the hot context, which is read under the
\* token and written under the user's id, the tokens of the user it names.
StandsFor(text) == {t \in Tokens : t = text \/ UserOf[t] = text}

\* enforce_contract: the identity a handler works with is one that IAM held, for a token
\* the presented text stands for, while some request asked for it; that request stored it
\* less than the TTL before it was read; and its organization is the tenant of the header.
\* A text that is no token but a user's id passes, if that user was just here.
IdentityAged ==
    \A c \in Callers : caller[c].at = "forwarded" =>
        LET r == caller[c] IN
        /\ \E t \in StandsFor(r.contract.token) : r.id \in Held(t, r.source.begun, r.source.stored)
        /\ r.read < r.source.stored + CacheTTL
        /\ r.id.org = r.contract.tenant

\* RequestContext: behind the gateway or without it, a handler sees the same caller;
\* and headers the extractor accepts fail in the gateway only for the token.
ReadersAgree ==
    \A c \in Callers : caller[c].at # "idle" =>
        LET alone == ContextFromHeaders(caller[c].headers) IN
        /\ caller[c].at = "forwarded" => caller[c].ctx = alone
        /\ (caller[c].at = "answered" /\ caller[c].status = 400 /\ alone.status = 200) =>
              ~HasText(caller[c].headers["authorization"])
        /\ (caller[c].at = "answered" /\ alone.status = 401) => caller[c].status = 400

\* upsert and get_context: a live copy under the profile's organization is the stored
\* version unless an upsert has yet to drop it or failed to, consent was updated since
\* it was read, or it was filled by a read that a write overtook.
ProfileCopyTrue ==
    LET key == ProfileKey(profile.org) IN
    Live(key) =>
        \/ hot[key].version = profile.version
        \/ hot[key].version < profile.consent \/ hot[key].version < profile.lost
        \/ hot[key].overtaken
        \/ \E p \in Managers : manager[p].at = "drop" /\ manager[p].org = profile.org

GatewaySound == IdentityAged /\ ReadersAgree /\ ProfileCopyTrue
================================================================================
