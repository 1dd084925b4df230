------------------------------ MODULE VwsDial ------------------------------
(***************************************************************************)
(* The client's builder and the header of the handshake                    *)
(* (src/client/builder.go and the part of Connect in client.go that        *)
(* prepares the dial).                                                     *)
(*                                                                         *)
(* Build hands the builder's header map to the client without copying it:  *)
(* clients built from one builder share it with each other and with the    *)
(* calls of the builder still to come, except those built before there was *)
(* a map.  Connect copies it key by key, in any order, and then asks the   *)
(* provider for the value of the Authorization header.                     *)
(*                                                                         *)
(* A call of the builder that falls into such a copy is a data race: the   *)
(* copy goes on with the old or the new value, or the runtime finds the    *)
(* concurrent write and the process dies.                                  *)
(***************************************************************************)
EXTENDS Naturals

CONSTANTS Clients,
          Names,     \* of headers, "Authorization" among them
          Values,    \* that the program gives headers
          Tokens     \* of the authorization providers, one for each provider

VARIABLES builder,   \* url given; has a header map; its provider
          headers,   \* the header map
          client,    \* what Build has put into each client
          attempt,   \* each client's Connect: its step, the names still to copy,
                     \* the header it prepares
          sent,      \* header of the client's last handshake
          died       \* the runtime has found a concurrent map access

dialVars == <<builder, headers, client, attempt, sent, died>>

Authorization == "Authorization"
Absent == "absent"      \* a header without a value; no token at all
NoClient == [built |-> FALSE, shares |-> FALSE, provider |-> Absent]

ASSUME DialAssumption ==
  /\ Authorization \in Names
  /\ Values \cap Tokens = {} /\ Absent \notin Values \cup Tokens

Empty == [n \in Names |-> Absent]
Idle == [pc |-> "idle", left |-> {}, header |-> Empty]

DialInit ==
  /\ builder = [url |-> FALSE, map |-> FALSE, provider |-> Absent]
  /\ headers = Empty
  /\ client = [c \in Clients |-> NoClient]
  /\ attempt = [c \in Clients |-> Idle]
  /\ sent = [c \in Clients |-> Empty]
  /\ died = FALSE

-----------------------------------------------------------------------------
(* builder.go                                                              *)

Copying(c) == attempt[c].pc = "copy" /\ client[c].shares

WithURL ==
  /\ builder' = [builder EXCEPT !.url = TRUE]
  /\ UNCHANGED <<headers, client, attempt, sent, died>>

(* WithAuthorization, and WithAuthorizationProvider: a nil provider takes  *)
(* the one given before away.                                              *)
WithAuthorization(token) ==
  /\ builder' = [builder EXCEPT !.provider = token]
  /\ UNCHANGED <<headers, client, attempt, sent, died>>

(* WithHeader, and WithHeaders for each of its headers.                    *)
WithHeader(n, v) ==
  /\ builder' = [builder EXCEPT !.map = TRUE]
  /\ headers' = [headers EXCEPT ![n] = v]
  /\ died' \in {died, \E c \in Clients : Copying(c)}
  /\ UNCHANGED <<client, attempt, sent>>

BuildClient(c) ==
  /\ ~client[c].built /\ builder.url
  /\ client' = [client EXCEPT ![c] =
       [built |-> TRUE, shares |-> builder.map, provider |-> builder.provider]]
  /\ UNCHANGED <<builder, headers, attempt, sent, died>>

-----------------------------------------------------------------------------
(* client.go, Connect                                                      *)

\* mutant: the client asks its builder for the map when it connects
ConnectAsksBuilder(c) ==
  /\ client[c].built /\ attempt[c].pc = "idle"
  /\ attempt' = [attempt EXCEPT ![c] =
       [pc |-> "copy", left |-> IF builder.map THEN Names ELSE {}, header |-> Empty]]
  /\ UNCHANGED <<builder, headers, client, sent, died>>

ConnectClient(c) ==
  /\ client[c].built /\ attempt[c].pc = "idle"
  /\ attempt' = [attempt EXCEPT ![c] =
       [pc |-> "copy", left |-> IF client[c].shares THEN Names ELSE {}, header |-> Empty]]
  /\ UNCHANGED <<builder, headers, client, sent, died>>

CopyHeader(c, n) ==
  /\ attempt[c].pc = "copy" /\ n \in attempt[c].left
  /\ attempt' = [attempt EXCEPT ![c].left = @ \ {n}, ![c].header[n] = headers[n]]
  /\ UNCHANGED <<builder, headers, client, sent, died>>

Asks(c) == attempt[c].pc = "copy" /\ attempt[c].left = {}

(* Without a provider, or when it returns "", the copied header is sent.   *)
NoToken(c) ==
  /\ Asks(c)
  /\ attempt' = [attempt EXCEPT ![c].pc = "dial"]
  /\ UNCHANGED <<builder, headers, client, sent, died>>

\* mutant: the header dialled with is the client's own map, not a copy
TokenIntoSharedMap(c) ==
  /\ Asks(c) /\ client[c].provider # Absent
  /\ attempt' = [attempt EXCEPT ![c].pc = "dial",
                                ![c].header[Authorization] = client[c].provider]
  /\ headers' = IF client[c].shares
                THEN [headers EXCEPT ![Authorization] = client[c].provider] ELSE headers
  /\ UNCHANGED <<builder, client, sent, died>>

Token(c) ==
  /\ Asks(c) /\ client[c].provider # Absent
  /\ attempt' = [attempt EXCEPT ![c].pc = "dial",
                                ![c].header[Authorization] = client[c].provider]
  /\ UNCHANGED <<builder, headers, client, sent, died>>

ProviderFails(c) ==
  /\ Asks(c) /\ client[c].provider # Absent
  /\ attempt' = [attempt EXCEPT ![c] = Idle]
  /\ UNCHANGED <<builder, headers, client, sent, died>>

(* The handshake, after which the client may be connected again once it is *)
(* disconnected or the dial has failed.                                    *)
Dial(c) ==
  /\ attempt[c].pc = "dial"
  /\ sent' = [sent EXCEPT ![c] = attempt[c].header]
  /\ attempt' = [attempt EXCEPT ![c] = Idle]
  /\ UNCHANGED <<builder, headers, client, died>>

BuilderCall ==
  \/ WithURL
  \/ \E t \in Tokens \cup {Absent} : WithAuthorization(t)
  \/ \E n \in Names, v \in Values : WithHeader(n, v)
  \/ \E c \in Clients : BuildClient(c)

ConnectStep ==
  \E c \in Clients :
    \/ ConnectClient(c)
    \/ \E n \in Names : CopyHeader(c, n)
    \/ NoToken(c) \/ Token(c) \/ ProviderFails(c) \/ Dial(c)

DialNext == ~died /\ (BuilderCall \/ ConnectStep)

DialSpec == DialInit /\ [][DialNext]_dialVars

-----------------------------------------------------------------------------
Header == [Names -> Values \cup Tokens \cup {Absent}]

(* The types; a client that is connecting has been built, and only a       *)
(* client that shares the map has names to copy (client.go, Connect).      *)
DialTypeOK ==
  /\ builder \in [url : BOOLEAN, map : BOOLEAN, provider : Tokens \cup {Absent}]
  /\ headers \in [Names -> Values \cup {Absent}]
  /\ client \in [Clients -> [built : BOOLEAN, shares : BOOLEAN, provider : Tokens \cup {Absent}]]
  /\ attempt \in [Clients -> [pc : {"idle", "copy", "dial"}, left : SUBSET Names, header : Header]]
  /\ sent \in [Clients -> Header]
  /\ died \in BOOLEAN
  /\ \A c \in Clients : /\ attempt[c].pc # "idle" => client[c].built
                        /\ attempt[c].left # {} => Copying(c)

(* A token goes out in the handshakes of clients built with its provider   *)
(* only, as their Authorization header only, and never into the map that   *)
(* other clients and the builder share (client.go, Connect; README.md of   *)
(* the client, Header Behavior).                                           *)
TokensStayHome ==
  /\ \A n \in Names : headers[n] \notin Tokens
  /\ \A c \in Clients, n \in Names :
       sent[c][n] \in Tokens => n = Authorization /\ sent[c][n] = client[c].provider

(* A client built before the builder had any header sends none but its     *)
(* token, whatever headers the builder is given afterwards; one of a       *)
(* client's headers is thus decided by the order of WithHeader and Build,  *)
(* and so is whether a builder in use can end the process                  *)
(* (builder.go, WithHeader and Build).                                     *)
BuiltWithoutHeaders ==
  /\ \A c \in Clients, n \in Names :
       client[c].built /\ ~client[c].shares => sent[c][n] \in Tokens \cup {Absent}
  /\ died => \E c \in Clients : client[c].shares
=============================================================================
