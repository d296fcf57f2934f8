---------------------------- MODULE DataProtection ----------------------------
(***************************************************************************)
(* compliance.rs and encryption.rs: masking of personal data in free text, *)
(* removal of identifying keys, detection of credentials, and encryption   *)
(* under rotating keys.                                                    *)
(*                                                                         *)
(* A text is a sequence over the classes of characters that the masker     *)
(* tells apart; a word that it looks for is one symbol. Lengths are scaled *)
(* down: a passport has 1 digit for 8, a phone number 2 for 11, a bank     *)
(* card 3 to 5 for 16 to 19 (an identity card 4 for 18), and windows are   *)
(* counted in symbols.                                                     *)
(***************************************************************************)
EXTENDS Naturals, Sequences, FiniteSets, FiniteSetsExt, SequencesExt

CONSTANTS
    Texts,            \* texts to mask
    BankWindow, PassportBefore, PassportAfter,
    Payloads,         \* structured payloads: sets of paths of keys
    Rotators, Secrets,
    MaxRotations,
    NoMask

\* "1", "5": digits. "X": a capital letter. "card": the words card and bank.
\* "host": a name with a dot and an ending of letters. "addr": the label of an address.
Digits == {"1", "5"}
LocalChars == Digits \cup {"X", "card", "host", "passport"}

PhoneLen == 2
BankLens == 3..5
IdLen == 4

\* The first position from i on whose symbol is not of the class.
RunEnd(t, i, class) ==
    IF \A j \in i..Len(t) : t[j] \in class THEN Len(t) + 1
    ELSE CHOOSE j \in i..Len(t) : t[j] \notin class /\ \A k \in i..(j - 1) : t[k] \in class

\* A hit: the kind, and the first position after it.
MaskType == {"email", "phone_number", "id_card", "bank_card", "passport", "address"}
Hit(kind, end) == [kind |-> kind, end |-> end]

\* A local part, "@" and a domain whose last dot is followed by letters only.
try_email(t, i) ==
    LET at == RunEnd(t, i, LocalChars)
        end == RunEnd(t, at + 1, LocalChars)
        dots == {j \in (at + 1)..(end - 1) : t[j] = "host"}
    IN IF /\ at > i /\ at <= Len(t) /\ t[at] = "@" /\ dots # {}
          /\ \A j \in (Max(dots) + 1)..(end - 1) : t[j] \notin Digits
       THEN Hit("email", end) ELSE NoMask

bank_context(t, i) == \E j \in 1..(i - 1) : j + BankWindow >= i /\ t[j] = "card"

\* Any run of the length of an identity card is one, whatever stands before it;
\* a letter may stand for its last digit.
try_digit_run(t, i) ==
    IF t[i] \notin Digits THEN NoMask
    ELSE LET j == RunEnd(t, i, Digits)
             end == IF j - i = IdLen - 1 /\ j <= Len(t) /\ t[j] = "X" THEN j + 1 ELSE j
             total == end - i
         IN IF total = IdLen THEN Hit("id_card", end)
            ELSE IF total \in BankLens /\ bank_context(t, i) THEN Hit("bank_card", end)
            ELSE IF total = PhoneLen /\ t[i] = "1" /\ t[i + 1] = "5" THEN Hit("phone_number", end)
            ELSE NoMask

passport_context(t, from, end) ==
    \E j \in DOMAIN t : t[j] = "passport" /\ j + PassportBefore >= from /\ j < end + PassportAfter

try_passport(t, i) ==
    IF /\ t[i] = "X" /\ i + 1 <= Len(t) /\ t[i + 1] \in Digits
       /\ ~(i + 2 <= Len(t) /\ t[i + 2] \in Digits)
       /\ passport_context(t, i, i + 2)
    THEN Hit("passport", i + 2) ELSE NoMask

\* At the start of a line only; the label is kept, the rest of the line is not.
try_address(t, i) ==
    IF t[i] = "addr" /\ (i = 1 \/ t[i - 1] = "newline")
    THEN Hit("address", RunEnd(t, i + 1, LocalChars \cup {"@", "addr"})) ELSE NoMask

match_at(t, i) ==
    LET tries == <<try_email(t, i), try_digit_run(t, i), try_passport(t, i), try_address(t, i)>>
        hits == {k \in DOMAIN tries : tries[k] # NoMask}
    IN IF hits = {} THEN NoMask ELSE tries[Min(hits)]

\* PiiMasker::mask: from left to right, on behind a hit, else by one.
mask(t) ==
    LET scan[i \in 1..(Len(t) + 1)] ==
            IF i > Len(t) THEN <<>>
            ELSE LET hit == match_at(t, i)
                 IN IF hit = NoMask THEN <<[from |-> i, to |-> i, kind |-> NoMask]>> \o scan[i + 1]
                    ELSE <<[from |-> i, to |-> hit.end - 1, kind |-> hit.kind]>> \o scan[hit.end]
    IN scan[1]

MaskReport(parts) == SelectSeq(parts, LAMBDA p : p.kind # NoMask)

-----------------------------------------------------------------------------
(* Anonymizer. *)

\* A key that contains one of the fragments.
is_pii_key(key) == key \in {"email", "home_address", "token"}

\* Below a key that goes, everything goes.
strip_pii_keys(value) == {p \in value : \A i \in DOMAIN p : ~is_pii_key(p[i])}

-----------------------------------------------------------------------------
(* CredentialDetector. *)

CredentialType == {"private_key", "jwt_token", "bearer_token", "api_key", "password",
                   "access_token", "secret_key"}

\* The type of each pattern, in the order they are tried.
patterns == <<"private_key", "jwt_token", "bearer_token", "api_key", "api_key", "api_key",
              "api_key", "api_key", "password", "api_key", "password", "access_token",
              "secret_key">>

\* `matching`: which patterns match the text.
scan(matching) ==
    FoldLeft(LAMBDA found, i : IF i \in matching /\ patterns[i] \notin Range(found)
                               THEN Append(found, patterns[i]) ELSE found,
             <<>>, [i \in DOMAIN patterns |-> i])

-----------------------------------------------------------------------------
VARIABLES
    masked,       \* the last text and what mask made of it
    key_store,    \* InMemoryKeyProvider.keys: versions
    current,      \* current_version
    rotator,      \* rotations: what each has read
    overlapped,   \* have two rotations been under way at once?
    rotations,    \* rotations that have ended
    secret        \* encryptions: the version read, then the version of the ciphertext

protection_vars == <<masked, key_store, current, rotator, overlapped, rotations, secret>>

key_vars == <<key_store, current, rotator, overlapped, rotations, secret>>

Mask(t) ==
    /\ masked' = [of |-> "text", text |-> t, parts |-> mask(t)]
    /\ UNCHANGED key_vars

anonymize(value) ==
    /\ masked' = [of |-> "payload", value |-> value, kept |-> strip_pii_keys(value)]
    /\ UNCHANGED key_vars

Scan(matching) ==
    /\ masked' = [of |-> "credentials", matching |-> matching, found |-> scan(matching)]
    /\ UNCHANGED key_vars

ProtectText ==
    /\ masked = NoMask
    /\ \/ \E t \in Texts : Mask(t)
       \/ \E v \in Payloads : anonymize(v)
       \/ \E s \in SUBSET DOMAIN patterns : Scan(s)

-----------------------------------------------------------------------------
(* InMemoryKeyProvider: two locks, one after the other. *)

should_encrypt(privacy) == privacy \in {"restricted", "confidential"}

NextVersion(r) ==
    /\ rotator[r] = 0 /\ rotations + Cardinality({q \in Rotators : rotator[q] # 0}) < MaxRotations
    /\ rotator' = [rotator EXCEPT ![r] = current + 1]
    /\ overlapped' = (overlapped \/ \E q \in Rotators : rotator[q] # 0)
    /\ UNCHANGED <<masked, key_store, current, rotations, secret>>

\* The key of a version is computed from the version.
InsertKey(r) ==
    /\ rotator[r] # 0 /\ rotator[r] \notin key_store
    /\ key_store' = key_store \cup {rotator[r]}
    /\ UNCHANGED <<masked, current, rotator, overlapped, rotations, secret>>

\* The key is there, put by this rotation or by one that read the same version.
rotate_key(r) ==
    /\ rotator[r] \in key_store
    /\ current' = rotator[r]
    /\ rotations' = rotations + 1
    /\ rotator' = [rotator EXCEPT ![r] = 0]
    /\ UNCHANGED <<masked, key_store, overlapped, secret>>

Unused == [at |-> "unused", version |-> 0]

\* encrypt: the current version, then its key.
get_current_key(w, privacy) ==
    /\ secret[w] = Unused /\ should_encrypt(privacy)
    /\ secret' = [secret EXCEPT ![w] = [at |-> "version", version |-> current]]
    /\ UNCHANGED <<masked, key_store, current, rotator, overlapped, rotations>>

encrypt(w) ==
    /\ secret[w].at = "version"
    /\ secret' = [secret EXCEPT ![w].at = IF secret[w].version \in key_store THEN "sealed" ELSE "failed"]
    /\ UNCHANGED <<masked, key_store, current, rotator, overlapped, rotations>>

\* get_key_by_version finds the key of the ciphertext.
decrypt(w) ==
    /\ secret[w].at = "sealed"
    /\ secret' = [secret EXCEPT ![w].at = IF secret[w].version \in key_store THEN "opened" ELSE "failed"]
    /\ UNCHANGED <<masked, key_store, current, rotator, overlapped, rotations>>

KeysNext ==
    \/ \E r \in Rotators : NextVersion(r) \/ InsertKey(r) \/ rotate_key(r)
    \/ \E w \in Secrets : (\E p \in {"internal", "restricted"} : get_current_key(w, p)) \/ encrypt(w) \/ decrypt(w)

ProtectionInit ==
    /\ masked = NoMask
    /\ key_store = {1} /\ current = 1
    /\ rotator = [r \in Rotators |-> 0] /\ overlapped = FALSE /\ rotations = 0
    /\ secret = [w \in Secrets |-> Unused]

-----------------------------------------------------------------------------

\* The digits from i to j stand alone: no digit on either side.
StandsAlone(t, i, j) ==
    /\ \A k \in i..j : t[k] \in Digits
    /\ i > 1 => t[i - 1] \notin Digits
    /\ j < Len(t) => t[j + 1] \notin Digits

Covered(parts, i, j) == \A k \in i..j : \E n \in DOMAIN parts :
    parts[n].kind # NoMask /\ parts[n].from <= k /\ k <= parts[n].to

\* PiiMasker::mask: a number that stands alone and has the form of an identity card
\* or of a mobile phone, or of a bank card behind its word, is masked to its last
\* digit wherever it stands; and a digit is masked only with the number it is of, or
\* as the end of a run that is longer than any.
NumbersMasked ==
    (masked # NoMask /\ masked.of = "text") =>
        LET t == masked.text
            parts == masked.parts
            personal(i, j) == \/ j - i + 1 = IdLen
                              \/ (j - i + 1 = PhoneLen /\ t[i] = "1" /\ t[j] = "5")
                              \/ (j - i + 1 \in BankLens /\ bank_context(t, i))
        IN /\ \A i, j \in DOMAIN t :
                (i <= j /\ StandsAlone(t, i, j) /\ personal(i, j)) => Covered(parts, i, j)
           /\ \A n \in DOMAIN parts : parts[n].kind \in {"id_card", "bank_card", "phone_number"} =>
                parts[n].to = Len(t) \/ t[parts[n].to] = "X" \/ t[parts[n].to + 1] \notin Digits
           /\ \A n \in DOMAIN parts : parts[n].from =
                IF n = 1 THEN 1 ELSE parts[n - 1].to + 1
           /\ parts # <<>> => parts[Len(parts)].to = Len(t)

\* CredentialDetector::scan: every type with a matching pattern is told, and once.
CredentialsTold ==
    (masked # NoMask /\ masked.of = "credentials") =>
        /\ Range(masked.found) = {patterns[i] : i \in masked.matching}
        /\ Cardinality(Range(masked.found)) = Len(masked.found)

\* Anonymizer: no identifying key is left on any level.
PayloadStripped ==
    (masked # NoMask /\ masked.of = "payload") =>
        \A p \in masked.kept : Range(p) \cap {"email", "home_address", "token"} = {}

\* InMemoryKeyProvider: a rotation never makes an encryption or a decryption fail,
\* and unless two rotations overlap the current key is the newest.
KeysAtHand ==
    /\ \A w \in Secrets : secret[w].at # "failed"
    /\ ~overlapped => current = rotations + 1 /\ \A v \in key_store : v <= current + 1

ProtectionSound == NumbersMasked /\ CredentialsTold /\ PayloadStripped /\ KeysAtHand
=================================================================================
