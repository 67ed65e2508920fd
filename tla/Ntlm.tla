-------------------------------- MODULE Ntlm --------------------------------
(***************************************************************************)
(* The NTLMv2 exchange (internal/ntlm, and initiator.go and                *)
(* internal/spnego, which carry it).  Keyed hashes, ciphers and random     *)
(* values are terms: two of them are equal when they were made from the    *)
(* same things, and what was enciphered is found only with the same key.   *)
(***************************************************************************)
EXTENDS Naturals, Sequences, FiniteSets

DefaultFlags == {"56", "keyExch", "128", "targetInfo", "extended", "ntlm", "sign",
                 "requestTarget", "unicode", "version"}

Hmac(key, what) == <<"hmac", key, what>>
Cipher(key, what) == <<"rc4", key, what>>
Decipher(key, term) == IF term[1] = "rc4" /\ term[2] = key THEN term[3] ELSE <<"noise">>

\* ntowfv2: what user, secret and domain make together.
Ntowfv2(user, secret, domain) == Hmac(<<"md4", secret>>, <<user, domain>>)

\* Client.Negotiate.
NegotiateMessage == [flags |-> DefaultFlags]

\* Server.Challenge answers with some of the flags.  info holds the AV pairs:
\* av is the value of MsvAvFlags, or "none"; whole tells whether they parse.
ChallengeMessage(flags, av, whole) ==
    [flags |-> flags, target |-> "TARGET", challenge |-> "serverChallenge", av |-> av, whole |-> whole]

\* targetInfoEncoder.encode: the AV pairs of the challenge with the MIC bit,
\* channel bindings and the SPN added.  MsvAvFlags is changed where it lies,
\* in the challenge message itself.
Encoded(cmsg, spn) == [av |-> "mic", bindings |-> TRUE, spn |-> spn]
AfterEncoding(cmsg) == IF cmsg.av = "none" THEN cmsg ELSE [cmsg EXCEPT !.av = "mic"]

\* signKey and sealKey: a key for each direction.
SignKey(flags, key, fromClient) == IF "extended" \in flags THEN <<"sign", key, fromClient>> ELSE <<"nil">>
Strength(flags) == CASE "128" \in flags -> 16 [] "56" \in flags -> 7 [] OTHER -> 5
SealKey(flags, key, fromClient) ==
    IF "extended" \in flags THEN <<"seal", key, Strength(flags), fromClient>> ELSE key

SessionOf(flags, key) ==
    [flags |-> flags, key |-> key,
     signClient |-> SignKey(flags, key, TRUE), signServer |-> SignKey(flags, key, FALSE),
     sealClient |-> SealKey(flags, key, TRUE), sealServer |-> SealKey(flags, key, FALSE)]

\* mac, with the first sequence number and a fresh cipher: what it depends on.
Mac(flags, seal, sign, msg) ==
    CASE "extended" \notin flags -> <<"crc", seal, msg>>
      [] "keyExch" \in flags -> Cipher(seal, Hmac(sign, msg))
      [] OTHER -> Hmac(sign, msg)

\* Session.Sum by the client, and Session.CheckSum by the server.
Sum(s, msg) == IF "sign" \in s.flags THEN Mac(s.flags, s.sealClient, s.signClient, msg) ELSE <<"nil">>
CheckSum(s, sum, msg) == sum = Sum(s, msg)

\* Why Client.Authenticate refuses a challenge.
Refuses(cmsg) ==
    LET flags == NegotiateMessage.flags \cap cmsg.flags
    IN  "requestTarget" \notin flags \/ "targetInfo" \notin flags \/ ~ cmsg.whole

\* An initiator without a domain takes the target's.
Domain(cred, cmsg) == IF cred.domain = "" THEN cmsg.target ELSE cred.domain

\* Fault: the response key is made with the domain as it was configured.
ResponseKeyConfigured(cred, cmsg) == Ntowfv2(cred.user, cred.secret, cred.domain)

ResponseKey(cred, cmsg) == Ntowfv2(cred.user, cred.secret, Domain(cred, cmsg))

\* The message without its MIC, and the session the client keeps.
Unsigned(cred, cmsg) ==
    LET flags == NegotiateMessage.flags \cap cmsg.flags
        key   == ResponseKey(cred, cmsg)
        blob  == [time |-> "now", challenge |-> "clientChallenge", pairs |-> Encoded(cmsg, cred.spn)]
        proof == Hmac(key, <<cmsg.challenge, blob>>)
        base  == Hmac(key, proof)
    IN  [flags |-> flags, domain |-> Domain(cred, cmsg),
         user |-> cred.user, proof |-> proof, blob |-> blob,
         sessionKey |-> IF "keyExch" \in flags THEN Cipher(base, <<"random">>) ELSE <<"nil">>]

ClientKey(cred, cmsg) ==
    LET m == Unsigned(cred, cmsg)
    IN  IF "keyExch" \in m.flags THEN <<"random">> ELSE Hmac(ResponseKey(cred, cmsg), m.proof)

ClientSession(cred, cmsg) == SessionOf(Unsigned(cred, cmsg).flags, ClientKey(cred, cmsg))

\* Client.Authenticate, and the mechListMIC NTLMInitiator adds to its token.
\* The MIC is made over the challenge message as encode has left it.
AuthenticateMessage(cred, cmsg) ==
    LET m == Unsigned(cred, cmsg)
    IN  [msg |-> m,
         mic |-> Hmac(ClientKey(cred, cmsg), <<NegotiateMessage, AfterEncoding(cmsg), m>>),
         mechListMIC |-> Sum(ClientSession(cred, cmsg), "mechTypes")]

-----------------------------------------------------------------------------
(* Server.Authenticate, for an account with this secret.                   *)

ServerBase(secret, amsg) == Hmac(Ntowfv2(amsg.msg.user, secret, amsg.msg.domain), amsg.msg.proof)

ServerKey(secret, amsg) ==
    IF "keyExch" \in amsg.msg.flags THEN Decipher(ServerBase(secret, amsg), amsg.msg.sessionKey)
    ELSE ServerBase(secret, amsg)

\* Where the server looks for the MIC: behind the version if the flags have one,
\* else in its place.  The client always writes version and MIC, so that without
\* the flag the server reads the version and the first half of the MIC.
ReadMIC(amsg) == IF "version" \in amsg.msg.flags THEN amsg.mic ELSE <<"version", amsg.mic>>

Accepts(secret, cmsg, amsg) ==
    /\ amsg.msg.proof = Hmac(Ntowfv2(amsg.msg.user, secret, amsg.msg.domain),
                             <<cmsg.challenge, amsg.msg.blob>>)
    /\ amsg.msg.blob.pairs.av = "mic" =>
          ReadMIC(amsg) = Hmac(ServerKey(secret, amsg), <<NegotiateMessage, cmsg, amsg.msg>>)

ServerSession(secret, amsg) == SessionOf(amsg.msg.flags, ServerKey(secret, amsg))
=============================================================================
