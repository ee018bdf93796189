------------------------- MODULE MCRequestPipeline --------------------------
(* A small instance of RequestPipeline: one request meets the policy in any  *)
(* of its states.                                                            *)
EXTENDS RequestPipeline

CONSTANTS u1, shipped, frozen, broken, prefix

MCDocuments == {shipped, frozen, broken}
MCValid == {shipped, frozen, prefix}
MCTorn == {broken, prefix}
MCLimit == 3

\* frozen stops transfers; prefix is policy.rego up to its first rule.
MCRules == [d \in MCValid |-> IF d = shipped THEN RuleNames ELSE
                              IF d = frozen THEN {"register", "private"} ELSE {"register"}]

NoClaims == [sub |-> u1, scope |-> None, scopes |-> None, permissions |-> None]
High == {"transfer:high_value"}
Execute == {"transfer:execute"}

Bearer(signer, expired, claims) ==
    [scheme |-> "Bearer", signer |-> signer, expired |-> expired, claims |-> claims]

CallerClaims == {None, NoClaims, [NoClaims EXCEPT !.sub = NoSubject, !.scope = High],
                 [NoClaims EXCEPT !.scope = {}, !.permissions = High]} \cup
                {[NoClaims EXCEPT ![f] = High] : f \in {"scope", "scopes", "permissions"}}

CallerHeaders == UNION {{Bearer("idp", FALSE, c), Bearer("idp", TRUE, c),
                         Bearer("other", FALSE, c)} : c \in CallerClaims}

Caller == Bearer("idp", FALSE, NoClaims)
EdgeToken == Bearer("edge", FALSE, [NoClaims EXCEPT !.scopes = Execute])

Mock == [form |-> "mock", issuer |-> "nobody", integrity |-> FALSE, rejected |-> FALSE,
         appId |-> FALSE]
Google == [Mock EXCEPT !.form = "jws", !.issuer = "google", !.integrity = TRUE]
Apple == [Mock EXCEPT !.form = "jws", !.issuer = "apple", !.appId = TRUE]

Unsigned == [Mock EXCEPT !.form = "jws", !.integrity = TRUE, !.appId = TRUE]

Attestations == {Mock, Google, Apple, Unsigned, [Google EXCEPT !.integrity = FALSE],
                 [Google EXCEPT !.rejected = TRUE], [Apple EXCEPT !.appId = FALSE]} \cup
                {[Mock EXCEPT !.form = f] : f \in {"empty", "compromised", "unknown",
                                                   "undecodable"}}

GoodBody == [malformed |-> FALSE, empty |-> {}, wrong |-> {}, amount |-> 1,
             policyAmount |-> 1, platform |-> "ios", attestation |-> Apple]

\* A body with one key for the amount, and one with keys in different cases.
Amount(a) == [GoodBody EXCEPT !.amount = a, !.policyAmount = a]
TwoAmounts(a, p) == [GoodBody EXCEPT !.amount = a, !.policyAmount = p]

Faulty(fields) ==
    {[GoodBody EXCEPT !.malformed = TRUE], Amount(0), TwoAmounts(0, 1)} \cup
    {[GoodBody EXCEPT !.empty = {f}] : f \in fields} \cup
    {[GoodBody EXCEPT !.wrong = {f}] : f \in fields}

DeviceFields == {"id", "public_key_pem", "algorithm"}
TransferFields == Fields \ {"public_key_pem", "algorithm"}

Post(route, header, body) ==
    [route |-> route, policed |-> TRUE, method |-> "POST", header |-> header, body |-> body]

\* Every header with good bodies, every body with a good header.
Policed ==
    {Post("transfer", h, b) :
        h \in CallerHeaders \cup {[Caller EXCEPT !.scheme = s] : s \in {"none", "bearer"}},
        b \in {Amount(MCLimit - 1), Amount(MCLimit)}} \cup
    {Post("transfer", Bearer("idp", FALSE, c), b) :
        c \in {NoClaims, [NoClaims EXCEPT !.scope = High]},
        b \in {TwoAmounts(MCLimit, MCLimit - 1), TwoAmounts(MCLimit - 1, MCLimit),
               TwoAmounts(MCLimit, None)}} \cup
    {Post("transfer", Caller, b) : b \in Faulty(TransferFields)} \cup
    {Post("private", h, GoodBody) :
        h \in {EdgeToken, [EdgeToken EXCEPT !.expired = TRUE], Caller,
               [EdgeToken EXCEPT !.scheme = "none"], [EdgeToken EXCEPT !.signer = "other"]}} \cup
    {Post("private", EdgeToken, b) : b \in Faulty({"sender_account"})} \cup
    {Post("register", Caller, [GoodBody EXCEPT !.platform = p, !.attestation = a]) :
        p \in {"ios", "android"}, a \in Attestations} \cup
    {Post("register", [Caller EXCEPT !.signer = "other"], GoodBody)} \cup
    {Post("register", Caller, [GoodBody EXCEPT !.platform = p]) : p \in {"other", "empty"}} \cup
    {Post("register", Caller, b) : b \in Faulty(DeviceFields)} \cup
    {[Post(route, Caller, GoodBody) EXCEPT !.method = "GET"] : route \in Routes}

\* The same at handlers with and without a policy.
MCInputs == Policed \cup {[i EXCEPT !.policed = FALSE] : i \in Policed}

=============================================================================
