--------------------------- MODULE PEMSignerFactory ---------------------------
(***************************************************************************)
(* PEMSignerFactory of crypto/keys/pem_signer_factory.go.  Generate makes *)
(* a key from a keyspb.Specification, marshals it as DER and wraps it in a *)
(* keyspb.PrivateKey inside an any.Any; NewSigner unwraps an any.Any and   *)
(* loads a keyspb.PEMKeyFile from disk or a keyspb.PrivateKey from its DER. *)
(*                                                                         *)
(* The collaborators (NewFromSpec, MarshalPrivateKey, NewFromPrivateDER,  *)
(* NewFromPrivatePEMFile, ptypes) are outside this repository; they are    *)
(* modelled by what they do to the data: a key is [alg, id], DER is a     *)
(* tagged encoding of a key, an any.Any is the message type its URL names *)
(* and an encoded message.  Callers may call the factory any number of times; the state  *)
(* is the history of its results.                                          *)
(***************************************************************************)
CONSTANTS
    Specs,      \* key specifications: [alg] with alg the requested algorithm
    KeyIds,     \* distinct keys NewFromSpec may generate for one algorithm
    GenAlgs,    \* algorithms NewFromSpec can generate
    DerAlgs,    \* algorithms MarshalPrivateKey can encode as DER
    PemFiles,   \* path -> [key, password] of the PEM files on disk
    Passwords,  \* passwords a PEMKeyFile may name
    Junk        \* bytes that are no valid encoding

VARIABLES
    generated,  \* [spec, key, err, any] of every Generate call
    loaded      \* [any, err, key] of every NewSigner call

vars == <<generated, loaded>>

None == [alg |-> "none", id |-> 0]

\* ptypes.MarshalAny: the message's type URL, abstracted to the type it
\* names, and its wire encoding.  Marshalling a PrivateKey, whose only
\* field is bytes, cannot fail, so Generate's last return has no error.
MarshalAny(m) == [url |-> m.type, value |-> <<"wire", m>>]

\* ptypes.UnmarshalAny into DynamicAny: the type URL must name a registered
\* message and the bytes must decode as it.
Registered == {"PEMKeyFile", "PrivateKey", "Specification"}
UnmarshalAny(a) ==
    IF \E t \in Registered : a.url = t /\ a.value # Junk /\ a.value[2].type = t
    THEN [err |-> FALSE, msg |-> a.value[2]]
    ELSE [err |-> TRUE, msg |-> None]

\* MarshalPrivateKey and NewFromPrivateDER: DER encodes a supported key.
MarshalPrivateKey(key) ==
    IF key.alg \in DerAlgs THEN [err |-> FALSE, der |-> <<"der", key>>]
                           ELSE [err |-> TRUE, der |-> Junk]
NewFromPrivateDER(der) ==
    IF der # Junk THEN [err |-> FALSE, key |-> der[2]] ELSE [err |-> TRUE, key |-> None]

\* NewFromPrivatePEMFile: the file must exist and the password open it.
NewFromPrivatePEMFile(path, pw) ==
    IF path \in DOMAIN PemFiles /\ PemFiles[path].password = pw
    THEN [err |-> FALSE, key |-> PemFiles[path].key]
    ELSE [err |-> TRUE, key |-> None]

\* NewFromSpec: a fresh key of the requested algorithm, one of KeyIds.
NewFromSpec(spec, id) ==
    IF spec.alg \in GenAlgs THEN [err |-> FALSE, key |-> [alg |-> spec.alg, id |-> id]]
                            ELSE [err |-> TRUE, key |-> None]

(***************************************************************************)
(* Plausible bugs in the definitions below (see PROJECT.json "mutants").   *)
(***************************************************************************)
\* NewSigner's switch without the *keyspb.PrivateKey case.
SignerFromNoPrivateKeyCase(a) ==
    LET u == UnmarshalAny(a)
    IN  IF ~u.err /\ u.msg.type = "PEMKeyFile"
        THEN NewFromPrivatePEMFile(u.msg.path, u.msg.password)
        ELSE [err |-> TRUE, key |-> None]

\* Generate (51-65) returns keyspb.PrivateKey{Der: der} wrapped in an Any.
WrapDER(der) == [type |-> "PrivateKey", der |-> der]

\* NewSigner (35-49): unmarshal, then switch on the message type.
SignerFrom(a) ==
    LET u == UnmarshalAny(a)
        m == u.msg
    IN  CASE u.err                -> [err |-> TRUE, key |-> None]
          [] m.type = "PEMKeyFile" -> NewFromPrivatePEMFile(m.path, m.password)
          [] m.type = "PrivateKey" -> NewFromPrivateDER(m.der)
          [] OTHER                 -> [err |-> TRUE, key |-> None]

\* The inputs NewSigner is called with: what Generate returned, Anys of
\* PEMKeyFile and PrivateKey messages, of another message, and junk.
Inputs ==
    {g.any : g \in {x \in generated : ~x.err}}
    \cup {MarshalAny([type |-> "PEMKeyFile", path |-> p, password |-> pw]) :
            p \in DOMAIN PemFiles \cup {"missing"}, pw \in Passwords}
    \cup {MarshalAny([type |-> "PrivateKey", der |-> Junk])}
    \cup {MarshalAny([type |-> "Specification", alg |-> "ecdsa"])}
    \cup {[url |-> "PrivateKey", value |-> Junk]}

Init == generated = {} /\ loaded = {}

\* Generate: NewFromSpec, MarshalPrivateKey, MarshalAny; an error of either
\* of the first two is returned with a nil Any.
Generate(spec) ==
    /\ \E id \in KeyIds :
          LET k == NewFromSpec(spec, id)
              d == MarshalPrivateKey(k.key)
              failed == k.err \/ d.err
          IN  generated' = generated \cup
                 {[spec |-> spec, key |-> k.key, err |-> failed,
                   any |-> IF failed THEN None ELSE MarshalAny(WrapDER(d.der))]}
    /\ UNCHANGED loaded

NewSigner(a) ==
    /\ LET s == SignerFrom(a)
       IN  loaded' = loaded \cup {[any |-> a, err |-> s.err, key |-> s.key]}
    /\ UNCHANGED generated

Next == \/ \E spec \in Specs : Generate(spec)
        \/ \E a \in Inputs : NewSigner(a)

Spec == Init /\ [][Next]_vars

-----------------------------------------------------------------------------
(***************************************************************************)
(* What Generate returns can be passed to NewSigner to get a crypto.Signer *)
(* (the comment on Generate): every Any a successful Generate returned     *)
(* loads, in NewSigner, without error and as the very key generated.      *)
(***************************************************************************)
GeneratedKeysLoad ==
    \A g \in generated, l \in loaded :
        (~g.err /\ l.any = g.any) => (~l.err /\ l.key = g.key)
====
