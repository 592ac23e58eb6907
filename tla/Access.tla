---------------------------------- MODULE Access ----------------------------------
(***************************************************************************)
(* Who may do what through the API: transport and network policy           *)
(* (internal/httpapi/security), the merchant's credentials and roles       *)
(* (internal/subsystems/merchantauth).  Operators only: Admission puts     *)
(* them in the order of the middleware chain of main.go.                   *)
(***************************************************************************)
EXTENDS Integers

CONSTANTS
    Merchants,       \* the identifiers in the table merchants
    Addresses,       \* IP addresses
    TrustedProxies, MerchantAllowed, AdminAllowed,   \* the CIDR lists
    RequireHTTPS, TrustProxyHeaders, HasCertificate, Production,
    Window           \* timestampWindow

NoAddress == ""
Roles     == {"merchant", "admin", "auditor"}
Actions   == {"pay", "refund", "status", "report"}

(* Over TLS or not, without more, for a target that begins with https://,  *)
(* or with a proxy's word that it came to it by https.                     *)
Protocols == {"tls", "http", "https target", "forwarded https"}

ASSUME AddressesAssumption == NoAddress \notin Addresses
ASSUME PolicyAssumption ==
    /\ TrustedProxies \subseteq Addresses
    /\ MerchantAllowed \subseteq Addresses
    /\ AdminAllowed \subseteq Addresses
ASSUME FlagsAssumption ==
    /\ RequireHTTPS \in BOOLEAN
    /\ TrustProxyHeaders \in BOOLEAN
    /\ HasCertificate \in BOOLEAN
    /\ Production \in BOOLEAN
ASSUME WindowAssumption == Window \in Nat

(* main exits when the environment asks for anything else.                 *)
ASSUME StartUpAssumption ==
    /\ Production => RequireHTTPS
    /\ RequireHTTPS => HasCertificate \/ TrustProxyHeaders
    /\ (Production /\ TrustProxyHeaders) => TrustedProxies # {}

-----------------------------------------------------------------------------
(* A request: who signed it with which version of his keys and when, what  *)
(* it asks for, whose data it names and whether with spaces around the     *)
(* name, the address it comes from and the one a proxy says it is for.     *)
IsRequest(m) ==
    /\ m.from \in Merchants
    /\ m.key \in Nat
    /\ m.stamp \in Nat
    /\ m.action \in Actions
    /\ m.to \in Merchants
    /\ m.spaced \in BOOLEAN
    /\ m.remote \in Addresses
    /\ m.forwarded \in Addresses \cup {NoAddress}
    /\ m.protocol \in Protocols

(* A row of the table merchants.  Rotation changes the API key and the     *)
(* secret of the signature together: key is their version.                 *)
Row   == [key: Nat, role: Roles, active: BOOLEAN]
NoRow == [key |-> 0, role |-> "", active |-> FALSE]

-----------------------------------------------------------------------------
(* Transport and network.                                                  *)

(* An empty list allows everyone.                                          *)
IPAllowed(address, list) == list = {} \/ address \in list

IsSecureRequest(m) ==
    \/ m.protocol \in {"tls", "https target"}
    \/ /\ m.protocol = "forwarded https"
       /\ TrustProxyHeaders
       /\ IPAllowed(m.remote, TrustedProxies)

ClientIP(m) ==
    IF m.remote \in TrustedProxies /\ m.forwarded # NoAddress
    THEN m.forwarded ELSE m.remote

PolicyOf(role) == IF role \in {"admin", "auditor"} THEN AdminAllowed ELSE MerchantAllowed

NetworkAllows(role, m) == IPAllowed(ClientIP(m), PolicyOf(role))

-----------------------------------------------------------------------------
(* Authentication and authorization.                                       *)

validateTimestamp(stamp, now) == now - Window <= stamp /\ stamp <= now + Window

(* POST /payments only: the merchant_id of the body, spaces and all, is    *)
(* the trimmed X-Merchant-ID.                                              *)
checkBodyMerchantID(m) == m.action = "pay" => m.to = m.from /\ ~m.spaced

(* The API key and the signature are those of the row.                     *)
KeysMatch(row, m) == row.key = m.key

(* The name is trimmed before it is compared.                              *)
CanReadMerchantData(role, from, to) ==
    role \in {"admin", "auditor"} \/ (role = "merchant" /\ from = to)
CanWriteMerchantData(role, from, to) ==
    role = "admin" \/ (role = "merchant" /\ from = to)

Authorized(role, m) ==
    IF m.action \in {"pay", "refund"}
    THEN CanWriteMerchantData(role, m.from, m.to)
    ELSE CanReadMerchantData(role, m.from, m.to)
=============================================================================
