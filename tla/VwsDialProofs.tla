--------------------------- MODULE VwsDialProofs ---------------------------
(***************************************************************************)
(* Theorems about VwsDial for all clients, header names, values and tokens.*)
(***************************************************************************)
EXTENDS VwsDial, TLAPS

(* A header that client c has prepared or sent.                            *)
HeaderOf(c, header) ==
  \A n \in Names :
    /\ header[n] \in Tokens => n = Authorization /\ header[n] = client[c].provider
    /\ ~client[c].shares => header[n] \in Tokens \cup {Absent}

HeadersInv ==
  \A c \in Clients :
    /\ HeaderOf(c, attempt[c].header) /\ HeaderOf(c, sent[c])
    /\ ~client[c].built => attempt[c] = Idle /\ sent[c] = Empty

DiedInv == died => \E c \in Clients : client[c].built /\ client[c].shares

IInv == DialTypeOK /\ HeadersInv /\ DiedInv

LEMMA EmptyHeader == Empty \in Header /\ \A n \in Names : Empty[n] = Absent
BY DEF Empty, Header

-----------------------------------------------------------------------------
LEMMA TypePreserved ==
  ASSUME DialTypeOK, [DialNext]_dialVars
  PROVE  DialTypeOK'
<1> USE DialAssumption, EmptyHeader DEF DialTypeOK, Copying
<1>1. CASE WithURL \/ (\E t \in Tokens \cup {Absent} : WithAuthorization(t))
  BY <1>1 DEF WithURL, WithAuthorization
<1>2. CASE \E n \in Names, v \in Values : WithHeader(n, v)
  <2>1. UNCHANGED <<client, attempt, sent>>
    BY <1>2 DEF WithHeader
  <2>2. headers' \in [Names -> Values \cup {Absent}]
    BY <1>2 DEF WithHeader
  <2>3. builder' \in [url : BOOLEAN, map : BOOLEAN, provider : Tokens \cup {Absent}]
    BY <1>2 DEF WithHeader
  <2>4. died' \in BOOLEAN
    BY <1>2 DEF WithHeader
  <2> QED
    BY <2>1, <2>2, <2>3, <2>4
<1>3. CASE \E c \in Clients : BuildClient(c)
  <2>1. PICK c \in Clients : BuildClient(c)
    BY <1>3
  <2>2. attempt[c].pc = "idle" /\ attempt[c].left = {}
    BY <2>1 DEF BuildClient
  <2>3. client' \in [Clients -> [built : BOOLEAN, shares : BOOLEAN,
                                 provider : Tokens \cup {Absent}]]
    BY <2>1 DEF BuildClient
  <2>4. \A d \in Clients : d # c => client'[d] = client[d]
    BY <2>1 DEF BuildClient
  <2> QED
    BY <2>1, <2>2, <2>3, <2>4 DEF BuildClient
<1>4. CASE \E c \in Clients : ConnectClient(c)
  BY <1>4 DEF ConnectClient
<1>5. CASE \E c \in Clients : \E n \in Names : CopyHeader(c, n)
  <2>1. PICK c \in Clients, n \in Names : CopyHeader(c, n)
    BY <1>5
  <2>2. headers[n] \in Values \cup Tokens \cup {Absent}
    OBVIOUS
  <2>3. [attempt[c].header EXCEPT ![n] = headers[n]] \in Header
    BY <2>2 DEF Header
  <2>4. attempt' = [attempt EXCEPT ![c] = [attempt[c] EXCEPT !.left = @ \ {n},
                                             !.header = [@ EXCEPT ![n] = headers[n]]]]
    BY <2>1 DEF CopyHeader
  <2> QED
    BY <2>1, <2>3, <2>4 DEF CopyHeader
<1>6. CASE \E c \in Clients : NoToken(c) \/ ProviderFails(c) \/ Dial(c)
  <2>1. PICK c \in Clients : NoToken(c) \/ ProviderFails(c) \/ Dial(c)
    BY <1>6
  <2>2. sent' \in [Clients -> Header] /\ UNCHANGED <<builder, headers, client, died>>
    BY <2>1 DEF NoToken, ProviderFails, Dial
  <2>3. \/ attempt' = [attempt EXCEPT ![c] = Idle]
        \/ attempt' = [attempt EXCEPT ![c].pc = "dial"] /\ Asks(c)
    BY <2>1 DEF NoToken, ProviderFails, Dial
  <2>4. Idle \in [pc : {"idle", "copy", "dial"}, left : SUBSET Names, header : Header]
        /\ Idle.pc = "idle" /\ Idle.left = {}
    BY DEF Idle
  <2>5. CASE attempt' = [attempt EXCEPT ![c] = Idle]
    <3>1. \A d \in Clients : attempt'[d] = IF d = c THEN Idle ELSE attempt[d]
      BY <2>5
    <3>2. attempt' \in [Clients -> [pc : {"idle", "copy", "dial"}, left : SUBSET Names,
                                   header : Header]]
      BY <2>4, <2>5
    <3> QED
      BY <2>2, <2>4, <3>1, <3>2
  <2>6. CASE attempt' = [attempt EXCEPT ![c].pc = "dial"] /\ Asks(c)
    BY <2>2, <2>6 DEF Asks
  <2> QED
    BY <2>3, <2>5, <2>6
<1>7. CASE \E c \in Clients : Token(c)
  <2>1. PICK c \in Clients : Token(c)
    BY <1>7
  <2>2. [attempt[c].header EXCEPT ![Authorization] = client[c].provider] \in Header
    BY <2>1 DEF Token, Header
  <2>3. attempt' = [attempt EXCEPT ![c] = [attempt[c] EXCEPT !.pc = "dial",
                       !.header = [@ EXCEPT ![Authorization] = client[c].provider]]]
    BY <2>1 DEF Token
  <2>4. /\ UNCHANGED <<builder, headers, client, sent, died>>
        /\ attempt[c].pc = "copy" /\ attempt[c].left = {}
    BY <2>1 DEF Token, Asks
  <2> QED
    BY <2>2, <2>3, <2>4
<1>8. CASE UNCHANGED dialVars
  BY <1>8 DEF dialVars
<1> QED
  BY <1>1, <1>2, <1>3, <1>4, <1>5, <1>6, <1>7, <1>8 DEF DialNext, BuilderCall, ConnectStep

LEMMA HeadersPreserved ==
  ASSUME DialTypeOK, HeadersInv, [DialNext]_dialVars
  PROVE  HeadersInv'
<1> USE DialAssumption
<1>1. CASE BuilderCall /\ ~\E c \in Clients : BuildClient(c)
  <2>1. UNCHANGED <<client, attempt, sent>>
    BY <1>1 DEF BuilderCall, WithURL, WithAuthorization, WithHeader
  <2> QED
    BY <2>1 DEF HeadersInv, HeaderOf
<1>2. CASE \E c \in Clients : BuildClient(c)
  <2>1. PICK c \in Clients : BuildClient(c)
    BY <1>2
  <2>2. ~client[c].built /\ attempt[c] = Idle /\ sent[c] = Empty
    BY <2>1 DEF BuildClient, HeadersInv
  <2>3. UNCHANGED <<attempt, sent>> /\ \A d \in Clients : d # c => client'[d] = client[d]
    BY <2>1 DEF BuildClient, DialTypeOK
  <2>4. HeaderOf(c, Empty)'
    BY EmptyHeader DEF HeaderOf
  <2>5. client'[c].built
    BY <2>1 DEF BuildClient, DialTypeOK
  <2> QED
    BY <2>2, <2>3, <2>4, <2>5 DEF HeadersInv, HeaderOf, Idle
<1>3. CASE ConnectStep
  <2>1. PICK c \in Clients :
          \/ ConnectClient(c)
          \/ \E n \in Names : CopyHeader(c, n)
          \/ NoToken(c) \/ Token(c) \/ ProviderFails(c) \/ Dial(c)
    BY <1>3 DEF ConnectStep
  <2>2. client' = client /\ client[c].built
    BY <2>1 DEF ConnectClient, CopyHeader, NoToken, Token, ProviderFails, Dial, Asks, DialTypeOK
  <2>3. \A d \in Clients \ {c} : attempt'[d] = attempt[d] /\ sent'[d] = sent[d]
    BY <2>1 DEF ConnectClient, CopyHeader, NoToken, Token, ProviderFails, Dial, DialTypeOK
  <2>4. HeaderOf(c, attempt[c].header) /\ HeaderOf(c, sent[c])
    BY DEF HeadersInv
  <2>5. HeaderOf(c, Empty)
    BY EmptyHeader DEF HeaderOf
  <2>6. HeaderOf(c, attempt'[c].header) /\ HeaderOf(c, sent'[c])
    <3>1. CASE ConnectClient(c) \/ ProviderFails(c)
      BY <2>4, <2>5, <3>1 DEF ConnectClient, ProviderFails, Idle, DialTypeOK
    <3>2. CASE NoToken(c)
      BY <2>4, <3>2 DEF NoToken, DialTypeOK
    <3>3. CASE Dial(c)
      BY <2>4, <2>5, <3>3 DEF Dial, Idle, DialTypeOK
    <3>4. CASE \E n \in Names : CopyHeader(c, n)
      <4>1. PICK n \in Names : CopyHeader(c, n)
        BY <3>4
      <4>2. client[c].shares /\ headers[n] \notin Tokens
        BY <4>1 DEF CopyHeader, DialTypeOK, Copying
      <4>3. /\ sent' = sent
            /\ attempt'[c].header = [attempt[c].header EXCEPT ![n] = headers[n]]
        BY <4>1 DEF CopyHeader, DialTypeOK
      <4>4. attempt[c].header \in Header
        BY DEF DialTypeOK
      <4> QED
        BY <2>4, <4>2, <4>3, <4>4 DEF HeaderOf, Header
    <3>5. CASE Token(c)
      <4>1. /\ sent' = sent
            /\ attempt'[c].header = [attempt[c].header EXCEPT ![Authorization] = client[c].provider]
        BY <3>5 DEF Token, DialTypeOK
      <4>2. client[c].provider \in Tokens /\ attempt[c].header \in Header
        BY <3>5 DEF Token, DialTypeOK
      <4> QED
        BY <2>4, <4>1, <4>2 DEF HeaderOf, Header
    <3> QED
      BY <2>1, <3>1, <3>2, <3>3, <3>4, <3>5
  <2> QED
    BY <2>2, <2>3, <2>6 DEF HeadersInv, HeaderOf
<1>4. CASE UNCHANGED dialVars
  BY <1>4 DEF dialVars, HeadersInv, HeaderOf
<1> QED
  BY <1>1, <1>2, <1>3, <1>4 DEF DialNext

LEMMA DiedPreserved ==
  ASSUME DialTypeOK, DiedInv, [DialNext]_dialVars
  PROVE  DiedInv'
<1>1. CASE \E n \in Names, v \in Values : WithHeader(n, v)
  BY <1>1 DEF WithHeader, DiedInv, Copying, DialTypeOK
<1>2. CASE \E c \in Clients : BuildClient(c)
  BY <1>2 DEF BuildClient, DiedInv, DialTypeOK
<1>3. CASE UNCHANGED <<client, died>>
  BY <1>3 DEF DiedInv
<1> QED
  BY <1>1, <1>2, <1>3 DEF DialNext, BuilderCall, ConnectStep, WithURL, WithAuthorization,
    ConnectClient, CopyHeader, NoToken, Token, ProviderFails, Dial, dialVars

-----------------------------------------------------------------------------
LEMMA Invariance == DialSpec => []IInv
<1>1. DialInit => IInv
  <2> SUFFICES ASSUME DialInit PROVE IInv
    OBVIOUS
  <2>1. DialTypeOK
    BY EmptyHeader DEF DialInit, DialTypeOK, NoClient, Idle, Empty
  <2>2. HeadersInv
    BY EmptyHeader, DialAssumption DEF DialInit, HeadersInv, HeaderOf, NoClient, Idle
  <2> QED
    BY <2>1, <2>2 DEF DialInit, DiedInv, IInv
<1>2. IInv /\ [DialNext]_dialVars => IInv'
  BY TypePreserved, HeadersPreserved, DiedPreserved DEF IInv
<1> QED
  BY <1>1, <1>2, PTL DEF DialSpec

(* Every variable keeps its type, and only a client that has been built    *)
(* connects (client.go, Connect). *)
THEOREM TypeCorrect == DialSpec => []DialTypeOK
<1>1. IInv => DialTypeOK
  BY DEF IInv
<1> QED
  BY <1>1, Invariance, PTL

(* A token goes out only in the Authorization header of clients built with *)
(* its provider, and never into the shared map (client.go, Connect). *)
THEOREM TokensKept == DialSpec => []TokensStayHome
<1>1. IInv => TokensStayHome
  BY DialAssumption DEF IInv, DialTypeOK, HeadersInv, HeaderOf, TokensStayHome
<1> QED
  BY <1>1, Invariance, PTL

(* A client built before the builder had a header sends none but its token *)
(* (builder.go, Build). *)
THEOREM NoHeadersBorrowed == DialSpec => []BuiltWithoutHeaders
<1>1. IInv => BuiltWithoutHeaders
  BY DEF IInv, HeadersInv, HeaderOf, DiedInv, BuiltWithoutHeaders
<1> QED
  BY <1>1, Invariance, PTL
=============================================================================
