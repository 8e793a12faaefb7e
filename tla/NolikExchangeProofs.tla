-------------------------- MODULE NolikExchangeProofs --------------------------
(***************************************************************************)
(* Proofs about NolikMetadata, NolikExchange and NolikInterfaces, for any  *)
(* users, any lists of recipients and any messages, of any number and      *)
(* length.                                                                 *)
(***************************************************************************)
EXTENDS NolikExchange, NolikInterfaces, SequenceTheorems, FiniteSetTheorems, TLAPS

\* For induction over numbers and sequences; the operator that it folds is of
\* no matter here.
Lists == INSTANCE NolikFolds WITH Op <- hash_with_nonce

-----------------------------------------------------------------------------
(* Boxes *)

\* A box opens with its nonce and its pair of keys, and with nothing else.
LEMMA DecryptBox ==
  ASSUME NEW data \in Plain, NEW nonce, NEW pk, NEW sk, NEW other, NEW pk2, NEW sk2
  PROVE  Decrypt(Encrypt(data, nonce, pk, sk), other, pk2, sk2) =
           IF nonce = other /\ {pk, sk} = {pk2, sk2} THEN data ELSE Failed
<1> DEFINE box == Encrypt(data, nonce, pk, sk)
<1>1. \A d : box = Encrypt(d, other, pk2, sk2) <=>
               d = data /\ nonce = other /\ {pk, sk} = {pk2, sk2}
  BY DEF Encrypt
<1> HIDE DEF box
<1>2. QED
  BY <1>1 DEF Decrypt, box

\* Sealed between a broker and a party, a box opens for this party only.
LEMMA DecryptParty ==
  ASSUME NEW data \in Plain, NEW nonce, NEW broker, NEW party, NEW user,
         party # broker, user # broker
  PROVE  Decrypt(Encrypt(data, nonce, party, broker), nonce, broker, user) =
           IF party = user THEN data ELSE Failed
<1> DEFINE box == Encrypt(data, nonce, party, broker)
<1>1. {party, broker} = {broker, user} <=> party = user
  OBVIOUS
<1>2. \A d : box = Encrypt(d, nonce, broker, user) <=> d = data /\ party = user
  BY <1>1 DEF Encrypt
<1> HIDE DEF box
<1>3. QED
  BY <1>2 DEF Decrypt, box

-----------------------------------------------------------------------------
(* The loop of decrypt *)

Round(f, metadata, receiver, n) ==
  LET Open(bytes, nonce) == Decrypt(bytes, nonce, metadata.broker, receiver) IN
  IF n = 0 THEN << >>
  ELSE LET channel == metadata.channels[n]
           secret_nonce == Open(channel.nonce, metadata.nonce)
       IN IF secret_nonce = Failed THEN f[n - 1]
          ELSE Append(f[n - 1],
                 [nonce   |-> secret_nonce,
                  parties |-> [p \in DOMAIN channel.parties |->
                                 Open(channel.parties[p], secret_nonce)]])

IsLoop(f, metadata, receiver, n) == f = [m \in 0 .. n |-> Round(f, metadata, receiver, m)]

\* A round looks at the one before it only.
LEMMA RoundLocal ==
  ASSUME NEW metadata, NEW receiver, NEW n, NEW f, NEW g, n = 0 \/ f[n - 1] = g[n - 1]
  PROVE  Round(f, metadata, receiver, n) = Round(g, metadata, receiver, n)
BY DEF Round

LEMMA LoopExists ==
  ASSUME NEW metadata, NEW receiver, NEW n \in Nat
  PROVE  \E f : IsLoop(f, metadata, receiver, n)
<1> DEFINE T == {m \in Nat : \E f : IsLoop(f, metadata, receiver, m)}
           R(f, m) == Round(f, metadata, receiver, m)
<1>1. 0 \in T
  <2> DEFINE f == [m \in 0 .. 0 |-> R(<< >>, m)]
  <2>1. \A m \in 0 .. 0 : R(<< >>, m) = R(f, m)
    BY RoundLocal
  <2> HIDE DEF R
  <2>2. f = [m \in 0 .. 0 |-> R(f, m)]
    BY <2>1
  <2> HIDE DEF f
  <2>3. IsLoop(f, metadata, receiver, 0)
    BY <2>2 DEF IsLoop, R
  <2>4. QED
    BY <2>3
<1>2. ASSUME NEW m \in Nat, m \in T PROVE m + 1 \in T
  <2>1. PICK f : IsLoop(f, metadata, receiver, m)
    BY <1>2
  <2> DEFINE g == [k \in 0 .. m + 1 |-> R(f, k)]
  <2> HIDE DEF R
  <2>2. ASSUME NEW k \in 0 .. m PROVE g[k] = f[k]
    <3>1. f = [j \in 0 .. m |-> R(f, j)]
      BY <2>1 DEF IsLoop, R
    <3>2. f[k] = R(f, k)
      BY <3>1
    <3>3. QED
      BY <3>2
  <2>3. ASSUME NEW k \in 0 .. m + 1 PROVE R(f, k) = R(g, k)
    <3>1. k = 0 \/ k - 1 \in 0 .. m
      OBVIOUS
    <3>2. k = 0 \/ g[k - 1] = f[k - 1]
      BY <2>2, <3>1
    <3> HIDE DEF g
    <3>3. QED
      BY <3>2, RoundLocal DEF R
  <2>4. g = [k \in 0 .. m + 1 |-> R(g, k)]
    BY <2>3
  <2> HIDE DEF g
  <2>5. IsLoop(g, metadata, receiver, m + 1)
    BY <2>4 DEF IsLoop, R
  <2>6. QED
    BY <2>5
<1> HIDE DEF T
<1>3. \A m \in Nat : m \in T
  BY <1>1, <1>2, Lists!NatInductionSet
<1>4. QED
  BY <1>3 DEF T

LEMMA OpenChannelsLoop ==
  ASSUME NEW metadata, NEW receiver, Len(metadata.channels) \in Nat
  PROVE  LET n == Len(metadata.channels) IN
         \E f : IsLoop(f, metadata, receiver, n) /\ OpenChannels(metadata, receiver) = f[n]
<1> DEFINE n == Len(metadata.channels)
           R(f, m) == Round(f, metadata, receiver, m)
           Loop == CHOOSE f : f = [m \in 0 .. n |-> R(f, m)]
<1>1. OpenChannels(metadata, receiver) = Loop[n]
  BY ZenonT(60) DEF OpenChannels, Round
<1>2. \E f : f = [m \in 0 .. n |-> R(f, m)]
  BY LoopExists DEF IsLoop
<1> HIDE DEF R
<1>3. Loop = [m \in 0 .. n |-> R(Loop, m)]
  BY <1>2
<1> HIDE DEF Loop
<1>4. QED
  BY <1>1, <1>3 DEF IsLoop, R

-----------------------------------------------------------------------------
(* Metadata *)

\* Metadata that new_encrypted made; `keys` are those of the users.
IsNew(md, keys, sender, recipients, secret_nonce) ==
  /\ keys \subseteq KeyPairs /\ sender \in keys /\ recipients \in Seq(keys)
  /\ md.broker \in KeyPairs \ keys
  /\ md.nonce \in Nonces /\ secret_nonce \in Nonces
  /\ LET parties == Parties(sender, recipients) IN
     md = [nonce    |-> md.nonce,
           broker   |-> md.broker,
           hash     |-> md.hash,
           channels |-> [c \in DOMAIN parties |->
                           ChannelFor(parties[c], parties, md.nonce, secret_nonce, md.broker)]]

LEMMA PartiesType ==
  ASSUME NEW keys, NEW sender \in keys, NEW recipients \in Seq(keys)
  PROVE  LET parties == Parties(sender, recipients) IN
         /\ parties \in Seq(keys) /\ Len(parties) = Len(recipients) + 1
         /\ Head(parties) = sender /\ Tail(parties) = recipients
         /\ \A r \in Range(recipients) \cup {sender} :
              \E p \in 1 .. Len(parties) : parties[p] = r
<1> DEFINE parties == Parties(sender, recipients)
<1>1. /\ parties \in Seq(keys) /\ Len(parties) = Len(recipients) + 1
      /\ parties[1] = sender /\ Len(recipients) \in Nat
      /\ \A i \in 1 .. Len(recipients) : parties[i + 1] = recipients[i]
  BY DEF Parties
<1> HIDE DEF parties
<1>2. Head(parties) = sender
  BY <1>1
<1>3. Tail(parties) = recipients
  <2>1. /\ Tail(parties) \in Seq(keys) /\ Len(Tail(parties)) = Len(recipients)
        /\ \A i \in 1 .. Len(recipients) : Tail(parties)[i] = parties[i + 1]
    BY <1>1
  <2>2. QED
    BY <1>1, <2>1, SeqEqual
<1>4. ASSUME NEW r \in Range(recipients) \cup {sender}
      PROVE  \E p \in 1 .. Len(parties) : parties[p] = r
  <2>1. CASE r = sender
    <3>1. 1 \in 1 .. Len(parties)
      BY <1>1
    <3>2. QED
      BY <1>1, <2>1, <3>1
  <2>2. CASE r \in Range(recipients)
    <3>1. PICK i \in 1 .. Len(recipients) : recipients[i] = r
      BY <2>2 DEF Range
    <3>2. i + 1 \in 1 .. Len(parties)
      BY <1>1
    <3>3. QED
      BY <1>1, <3>1, <3>2
  <2>3. QED
    BY <2>1, <2>2
<1>5. QED
  BY <1>1, <1>2, <1>3, <1>4 DEF parties

LEMMA NewChannels ==
  ASSUME NEW md, NEW keys, NEW sender, NEW recipients, NEW secret_nonce,
         IsNew(md, keys, sender, recipients, secret_nonce)
  PROVE  LET parties == Parties(sender, recipients)
         IN /\ DOMAIN md.channels = 1 .. Len(parties) /\ Len(md.channels) = Len(parties)
            /\ \A c \in 1 .. Len(parties) : md.channels[c] =
                 [nonce   |-> Encrypt(secret_nonce, md.nonce, parties[c], md.broker),
                  parties |-> [p \in 1 .. Len(parties) |->
                                 Encrypt(parties[p], secret_nonce, parties[c], md.broker)]]
<1> DEFINE parties == Parties(sender, recipients)
           channels == [c \in DOMAIN parties |->
                          ChannelFor(parties[c], parties, md.nonce, secret_nonce, md.broker)]
<1>1. parties \in Seq(keys) /\ DOMAIN parties = 1 .. Len(parties) /\ Len(parties) \in Nat
  BY PartiesType DEF IsNew
<1>2. md.channels = channels
  <2> DEFINE new == [nonce |-> md.nonce, broker |-> md.broker, hash |-> md.hash,
                     channels |-> channels]
  <2>1. md = new
    BY DEF IsNew
  <2>2. new.channels = channels
    OBVIOUS
  <2> HIDE DEF new
  <2>3. QED
    BY <2>1, <2>2
<1> HIDE DEF parties
<1>3. DOMAIN channels = 1 .. Len(parties) /\ Len(channels) = Len(parties)
  BY <1>1
<1>4. QED
  BY <1>1, <1>2, <1>3 DEF ChannelFor, parties

\* What a party sees of each of its channels.
Channel(sender, recipients, secret_nonce) ==
  [nonce |-> secret_nonce, parties |-> Parties(sender, recipients)]

\* The places at which a user is named.
Places(parties, user) == {p \in 1 .. Len(parties) : parties[p] = user}

\* The loop over the channels of new metadata opens one channel for each time
\* that the reader is named, and all of them are the same.
LEMMA LoopResult ==
  ASSUME NEW md, NEW keys, NEW sender, NEW recipients, NEW secret_nonce,
         IsNew(md, keys, sender, recipients, secret_nonce), NEW user \in keys
  PROVE  LET parties == Parties(sender, recipients)
             opened == OpenChannels(md, user)
         IN /\ opened \in Seq({Channel(sender, recipients, secret_nonce)})
            /\ Len(opened) = Cardinality(Places(parties, user))
<1> DEFINE parties == Parties(sender, recipients)
           n == Len(parties)
           o == Channel(sender, recipients, secret_nonce)
           Named(m) == {p \in 1 .. m : parties[p] = user}
<1>1. /\ parties \in Seq(keys) /\ n \in Nat /\ DOMAIN parties = 1 .. n
      /\ \A p \in 1 .. n : parties[p] \in keys
  <2>1. parties \in Seq(keys)
    BY PartiesType DEF IsNew
  <2> HIDE DEF parties
  <2>2. QED
    BY <2>1
<1>2. /\ DOMAIN md.channels = 1 .. n /\ Len(md.channels) = n
      /\ \A c \in 1 .. n : md.channels[c] =
           [nonce   |-> Encrypt(secret_nonce, md.nonce, parties[c], md.broker),
            parties |-> [p \in 1 .. n |->
                           Encrypt(parties[p], secret_nonce, parties[c], md.broker)]]
  <2> HIDE DEF parties
  <2>1. parties = Parties(sender, recipients)
    BY DEF parties
  <2>2. QED
    BY <2>1, NewChannels
<1>3. secret_nonce \in Plain /\ secret_nonce # Failed /\ user # md.broker
      /\ \A p \in 1 .. n : parties[p] # md.broker /\ parties[p] \in Plain
  BY <1>1, FailedAssumption DEF IsNew, Plain
<1> HIDE DEF parties, n
<1>4. PICK f : IsLoop(f, md, user, n) /\ OpenChannels(md, user) = f[n]
  <2>1. Len(md.channels) \in Nat
    BY <1>1, <1>2
  <2>2. QED
    BY <1>2, <2>1, OpenChannelsLoop
<1>5. \A m \in 0 .. n : f[m] = Round(f, md, user, m)
  BY <1>4 DEF IsLoop
<1>6. ASSUME NEW m \in 1 .. n
      PROVE  f[m] = IF parties[m] = user THEN Append(f[m - 1], o) ELSE f[m - 1]
  <2> DEFINE channel == md.channels[m]
  <2>1. /\ channel.nonce = Encrypt(secret_nonce, md.nonce, parties[m], md.broker)
        /\ channel.parties = [p \in 1 .. n |->
                                Encrypt(parties[p], secret_nonce, parties[m], md.broker)]
    <3>1. channel = [nonce   |-> Encrypt(secret_nonce, md.nonce, parties[m], md.broker),
                     parties |-> [p \in 1 .. n |->
                                    Encrypt(parties[p], secret_nonce, parties[m], md.broker)]]
      BY <1>2
    <3> HIDE DEF channel
    <3>2. QED
      BY <3>1
  <2> HIDE DEF channel
  <2> DEFINE nonce == Decrypt(channel.nonce, md.nonce, md.broker, user)
             inside == [p \in DOMAIN channel.parties |->
                          Decrypt(channel.parties[p], nonce, md.broker, user)]
  <2>2. f[m] = IF nonce = Failed THEN f[m - 1]
               ELSE Append(f[m - 1], [nonce |-> nonce, parties |-> inside])
    <3>1. f[m] = Round(f, md, user, m) /\ m # 0
      BY <1>1, <1>5
    <3>2. QED
      BY <1>2, <3>1 DEF Round, channel
  <2>3. nonce = IF parties[m] = user THEN secret_nonce ELSE Failed
    BY <1>3, <2>1, DecryptParty
  <2>4. ASSUME parties[m] = user PROVE inside = parties
    <3>1. DOMAIN inside = 1 .. n
      BY <2>1
    <3>2. ASSUME NEW p \in 1 .. n PROVE inside[p] = parties[p]
      <4>1. inside[p] = Decrypt(channel.parties[p], secret_nonce, md.broker, user)
        BY <1>3, <2>3, <2>4, <3>1
      <4>2. channel.parties[p] = Encrypt(parties[p], secret_nonce, parties[m], md.broker)
        BY <2>1
      <4>3. parties[p] \in Plain /\ parties[m] # md.broker
        BY <1>3
      <4>4. QED
        BY <1>3, <2>4, <4>1, <4>2, <4>3, DecryptParty
    <3>3. inside = [p \in 1 .. n |-> parties[p]]
      BY <3>1, <3>2
    <3>4. parties = [p \in 1 .. n |-> parties[p]]
      BY <1>1
    <3>5. QED
      BY <3>3, <3>4
  <2> HIDE DEF inside, nonce
  <2>5. o = [nonce |-> secret_nonce, parties |-> parties]
    BY DEF Channel, parties
  <2>6. QED
    BY <1>3, <2>2, <2>3, <2>4, <2>5
<1> HIDE DEF o
<1> DEFINE T == {m \in Nat : m <= n => f[m] \in Seq({o}) /\ Len(f[m]) = Cardinality(Named(m))}
<1>7. 0 \in T
  <2>1. f[0] = << >>
    <3>1. f[0] = Round(f, md, user, 0)
      BY <1>1, <1>5
    <3>2. QED
      BY <3>1 DEF Round
  <2>2. Named(0) = {}
    OBVIOUS
  <2>3. Cardinality(Named(0)) = 0
    BY <2>2, FS_EmptySet
  <2>4. f[0] \in Seq({o}) /\ Len(f[0]) = 0
    BY <2>1
  <2> HIDE DEF Named
  <2>5. QED
    BY <2>3, <2>4
<1>8. ASSUME NEW m \in Nat, m \in T PROVE m + 1 \in T
  <2> SUFFICES ASSUME m + 1 <= n
               PROVE  f[m + 1] \in Seq({o}) /\ Len(f[m + 1]) = Cardinality(Named(m + 1))
    OBVIOUS
  <2>1. f[m] \in Seq({o}) /\ Len(f[m]) = Cardinality(Named(m))
    BY <1>1, <1>8
  <2>2. m + 1 \in 1 .. n /\ (m + 1) - 1 = m
    BY <1>1
  <2>3. f[m + 1] = IF parties[m + 1] = user THEN Append(f[m], o) ELSE f[m]
    BY <1>6, <2>2
  <2>4. IsFiniteSet(Named(m)) /\ m + 1 \notin Named(m)
    <3>1. IsFiniteSet(1 .. m) /\ Named(m) \subseteq 1 .. m
      BY FS_Interval
    <3>2. QED
      BY <3>1, FS_Subset
  <2>5. CASE parties[m + 1] = user
    <3>1. Named(m + 1) = Named(m) \cup {m + 1}
      BY <2>5
    <3> HIDE DEF Named
    <3>2. Cardinality(Named(m + 1)) = Cardinality(Named(m)) + 1
      BY <2>4, <3>1, FS_AddElement
    <3>3. QED
      BY <2>1, <2>3, <2>5, <3>2
  <2>6. CASE parties[m + 1] # user
    <3>1. Named(m + 1) = Named(m)
      BY <2>6
    <3>2. QED
      BY <2>1, <2>3, <2>6, <3>1
  <2>7. QED
    BY <2>5, <2>6
<1> HIDE DEF T
<1>9. n \in T
  BY <1>1, <1>7, <1>8, Lists!NatInductionSet
<1>10. f[n] \in Seq({o}) /\ Len(f[n]) = Cardinality(Named(n))
  BY <1>1, <1>9 DEF T
<1>11. QED
  BY <1>4, <1>10 DEF parties, n, o, Places

\* decrypt succeeds for every user; the channels that it opens are the ones of
\* the reader, whole and all alike.
LEMMA DecryptResult ==
  ASSUME NEW md, NEW keys, NEW sender, NEW recipients, NEW secret_nonce,
         IsNew(md, keys, sender, recipients, secret_nonce), NEW user \in keys
  PROVE  LET parties == Parties(sender, recipients)
             channels == OpenChannels(md, user)
         IN /\ decrypt(md, user) = [md EXCEPT !.channels = channels]
            /\ [md EXCEPT !.channels = channels].channels = channels
            /\ [md EXCEPT !.channels = channels].nonce = md.nonce
            /\ [md EXCEPT !.channels = channels].broker = md.broker
            /\ Len(channels) = Cardinality(Places(parties, user))
            /\ Len(channels) \in Nat /\ DOMAIN channels = 1 .. Len(channels)
            /\ \A c \in 1 .. Len(channels) :
                 channels[c] = Channel(sender, recipients, secret_nonce)
            /\ user \in Range(recipients) \cup {sender} => 1 \in 1 .. Len(channels)
            /\ user \notin Range(recipients) \cup {sender} => channels = << >>
<1> DEFINE parties == Parties(sender, recipients)
           n == Len(parties)
           o == Channel(sender, recipients, secret_nonce)
           channels == OpenChannels(md, user)
           named == Places(parties, user)
           opened == [md EXCEPT !.channels = channels]
<1>1. channels \in Seq({o}) /\ Len(channels) = Cardinality(named)
  BY LoopResult
<1>2. parties \in Seq(keys) /\ n \in Nat /\ IsFiniteSet(named)
  <2>1. parties \in Seq(keys)
    BY PartiesType DEF IsNew
  <2> HIDE DEF parties
  <2>2. IsFiniteSet(1 .. n) /\ named \subseteq 1 .. n /\ n \in Nat
    BY <2>1, FS_Interval DEF Places
  <2>3. QED
    BY <2>1, <2>2, FS_Subset
<1>3. opened.channels = channels /\ opened.nonce = md.nonce /\ opened.broker = md.broker
  BY DEF IsNew
<1>4. user \in Range(recipients) \cup {sender} <=> named # {}
  <2>1. /\ Len(recipients) \in Nat /\ DOMAIN recipients = 1 .. Len(recipients)
        /\ parties[1] = sender /\ n = Len(recipients) + 1
        /\ \A i \in 1 .. Len(recipients) : parties[i + 1] = recipients[i]
    BY DEF Parties, IsNew
  <2> HIDE DEF parties, n
  <2>2. ASSUME user \in Range(recipients) \cup {sender} PROVE named # {}
    <3>1. CASE user = sender
      BY <2>1, <3>1 DEF Places, n
    <3>2. CASE user \in Range(recipients)
      <4>1. PICK i \in 1 .. Len(recipients) : recipients[i] = user
        BY <2>1, <3>2 DEF Range
      <4>2. i + 1 \in named
        BY <2>1, <4>1 DEF Places, n
      <4>3. QED
        BY <4>2
    <3>3. QED
      BY <2>2, <3>1, <3>2
  <2>3. ASSUME NEW p \in named PROVE user \in Range(recipients) \cup {sender}
    <3>1. CASE p = 1
      BY <2>1, <3>1 DEF Places, n
    <3>2. CASE p # 1
      <4>1. p - 1 \in 1 .. Len(recipients) /\ (p - 1) + 1 = p
        BY <2>1, <3>2 DEF Places, n
      <4>2. recipients[p - 1] = user
        BY <2>1, <4>1 DEF Places, n
      <4>3. QED
        BY <2>1, <4>1, <4>2 DEF Range
    <3>3. QED
      BY <3>1, <3>2
  <2>4. QED
    BY <2>2, <2>3
<1> HIDE DEF named, channels
<1>5. /\ Len(channels) \in Nat /\ DOMAIN channels = 1 .. Len(channels)
      /\ \A c \in 1 .. Len(channels) : channels[c] = o
  BY <1>1
<1>6. named # {} <=> Len(channels) # 0
  BY <1>1, <1>2, FS_EmptySet
<1>7. named = {} => channels = << >>
  BY <1>1, <1>6
<1>8. decrypt(md, user) = opened
  <2>1. ASSUME NEW c \in DOMAIN channels PROVE Failed \notin Range(channels[c].parties)
    <3>1. channels[c].parties = parties
      BY <1>5 DEF Channel
    <3>2. \A p \in DOMAIN parties : parties[p] \in keys
      <4> HIDE DEF parties
      <4>1. QED
        BY <1>2
    <3>3. Failed \notin keys
      BY FailedAssumption DEF IsNew, Plain
    <3> HIDE DEF parties
    <3>4. QED
      BY <3>1, <3>2, <3>3 DEF Range
  <2>2. QED
    BY <2>1 DEF decrypt, channels
<1>9. QED
  BY <1>1, <1>3, <1>4, <1>5, <1>6, <1>7, <1>8 DEF channels, named

-----------------------------------------------------------------------------
(* Messages *)

Entry == [key : Contents, value : Contents, kind : Kinds]

\* The Diffie-Hellman secret is the same from either side.
SamePair(pk, sk, pk2, sk2) == {pk, sk} = {pk2, sk2}

\* A message opens with its nonce and its pair of keys; with others it is an
\* error, unless it has no entries that could fail to open.
LEMMA DecryptMessageResult ==
  ASSUME NEW message \in Seq(Entry), NEW nonce, NEW pk, NEW sk,
         NEW other, NEW pk2, NEW sk2
  PROVE  LET data == EncryptMessage(message, nonce, pk, sk)
             fits == nonce = other /\ SamePair(pk, sk, pk2, sk2)
         IN /\ fits => DecryptMessage(data, other, pk2, sk2) = message
            /\ ~fits => DecryptMessage(data, other, pk2, sk2) \in {Failed, << >>}
<1> DEFINE data == EncryptMessage(message, nonce, pk, sk)
           fits == nonce = other /\ SamePair(pk, sk, pk2, sk2)
           open(bytes) == Decrypt(bytes, other, pk2, sk2)
           n == Len(message)
           entry(i) == [key |-> open(data[i].key), value |-> open(data[i].value),
                        kind |-> data[i].kind]
<1>1. /\ n \in Nat /\ DOMAIN message = 1 .. n
      /\ \A i \in 1 .. n : message[i] \in Entry
  OBVIOUS
<1>2. ASSUME NEW i \in 1 .. n
      PROVE  /\ message[i].key \in Plain /\ message[i].value \in Plain
             /\ message[i] = [key |-> message[i].key, value |-> message[i].value,
                              kind |-> message[i].kind]
  BY <1>1 DEF Entry, Plain
<1>3. /\ DOMAIN data = 1 .. n
      /\ \A i \in 1 .. n : /\ data[i].key = Encrypt(message[i].key, nonce, pk, sk)
                           /\ data[i].value = Encrypt(message[i].value, nonce, pk, sk)
                           /\ data[i].kind = message[i].kind
  BY <1>1 DEF EncryptMessage
<1>4. DecryptMessage(data, other, pk2, sk2) =
        IF \E i \in 1 .. n : Failed \in {open(data[i].key), open(data[i].value)}
        THEN Failed ELSE [i \in 1 .. n |-> entry(i)]
  <2> HIDE DEF data
  <2>1. QED
    BY <1>3 DEF DecryptMessage
<1> HIDE DEF data
<1>5. ASSUME NEW i \in 1 .. n
      PROVE  /\ open(data[i].key) = IF fits THEN message[i].key ELSE Failed
             /\ open(data[i].value) = IF fits THEN message[i].value ELSE Failed
  <2>1. /\ data[i].key = Encrypt(message[i].key, nonce, pk, sk)
        /\ data[i].value = Encrypt(message[i].value, nonce, pk, sk)
    BY <1>3
  <2>2. ASSUME NEW d \in Plain
        PROVE  open(Encrypt(d, nonce, pk, sk)) = IF fits THEN d ELSE Failed
    <3> DEFINE box == Encrypt(d, nonce, pk, sk)
    <3>1. \A e : box = Encrypt(e, other, pk2, sk2) <=> e = d /\ fits
      BY DEF Encrypt, SamePair
    <3> HIDE DEF box, fits
    <3>2. Decrypt(box, other, pk2, sk2) = IF fits THEN d ELSE Failed
      BY <3>1 DEF Decrypt
    <3>3. QED
      BY <3>2 DEF box
  <2>3. /\ open(Encrypt(message[i].key, nonce, pk, sk)) =
             IF fits THEN message[i].key ELSE Failed
        /\ open(Encrypt(message[i].value, nonce, pk, sk)) =
             IF fits THEN message[i].value ELSE Failed
    <3> HIDE DEF open, fits
    <3>1. QED
      BY <1>2, <2>2
  <2> HIDE DEF fits
  <2>4. QED
    BY <2>1, <2>3
<1> HIDE DEF n, open
<1>6. CASE fits
  <2>1. \A i \in 1 .. n : Failed \notin {open(data[i].key), open(data[i].value)}
    BY <1>2, <1>5, <1>6, FailedAssumption
  <2>2. \A i \in 1 .. n : entry(i) = message[i]
    BY <1>2, <1>3, <1>5, <1>6
  <2> HIDE DEF entry
  <2>3. DecryptMessage(data, other, pk2, sk2) = [i \in 1 .. n |-> message[i]]
    BY <1>4, <2>1, <2>2
  <2>4. message = [i \in 1 .. n |-> message[i]]
    BY <1>1
  <2>5. QED
    BY <1>6, <2>3, <2>4 DEF data
<1>7. CASE ~fits
  <2> HIDE DEF entry
  <2>1. CASE n = 0
    <3>1. 1 .. n = {}
      BY <2>1
    <3>2. [i \in 1 .. n |-> entry(i)] = << >>
      BY <3>1
    <3>3. QED
      BY <1>4, <1>7, <3>2 DEF data
  <2>2. CASE n # 0
    <3>1. 1 \in 1 .. n
      BY <1>1, <2>2
    <3>2. open(data[1].key) = Failed
      BY <1>5, <1>7, <3>1
    <3>3. QED
      BY <1>4, <1>7, <3>1, <3>2 DEF data
  <2>3. QED
    BY <2>1, <2>2
<1>8. QED
  BY <1>6, <1>7

LEMMA DecryptMessageOpens ==
  ASSUME NEW message \in Seq(Entry), NEW nonce, NEW pk, NEW sk, NEW pk2, NEW sk2,
         SamePair(pk, sk, pk2, sk2)
  PROVE  DecryptMessage(EncryptMessage(message, nonce, pk, sk), nonce, pk2, sk2) = message
BY DecryptMessageResult

\* The first entry tells, if there is one.
LEMMA DecryptMessageFails ==
  ASSUME NEW message \in Seq(Entry), message # << >>, NEW nonce, NEW pk, NEW sk,
         NEW other, NEW pk2, NEW sk2, ~(nonce = other /\ SamePair(pk, sk, pk2, sk2))
  PROVE  DecryptMessage(EncryptMessage(message, nonce, pk, sk), other, pk2, sk2) = Failed
<1> DEFINE data == EncryptMessage(message, nonce, pk, sk)
           plain == message[1].key
<1>1. 1 \in DOMAIN message /\ message[1] \in Entry
  OBVIOUS
<1>2. plain \in Plain
  BY <1>1 DEF Entry, Plain
<1>3. 1 \in DOMAIN data /\ data[1].key = Encrypt(plain, nonce, pk, sk)
  BY <1>1 DEF EncryptMessage
<1> HIDE DEF plain, data
<1>4. Decrypt(Encrypt(plain, nonce, pk, sk), other, pk2, sk2) = Failed
  BY <1>2, DecryptBox DEF SamePair
<1>5. Decrypt(data[1].key, other, pk2, sk2) = Failed
  BY <1>3, <1>4
<1>6. DecryptMessage(data, other, pk2, sk2) = Failed
  BY <1>3, <1>5 DEF DecryptMessage
<1>7. QED
  BY <1>6 DEF data

-----------------------------------------------------------------------------
(* What is published *)

Published ==
  {Packet(i, sender, nonce, sender, recipients, to, message) :
     i \in 1 .. MaxPackets, sender \in Users, nonce \in PublicNonces,
     recipients \in RecipientLists, to \in Users, message \in Messages}

\* The i-th packet, made by its sender for a recipient.
SentAs(packet, i) ==
  /\ packet.sender \in Users /\ packet.recipients \in RecipientLists
  /\ packet.to \in Range(packet.recipients) /\ packet.message \in Messages
  /\ \E nonce \in PublicNonces :
       packet = Packet(i, packet.sender, nonce, packet.sender, packet.recipients,
                       packet.to, packet.message)

PacketsInv ==
  /\ packets \in Seq(Published) /\ Len(packets) <= MaxPackets
  /\ \A i \in 1 .. Len(packets) : SentAs(packets[i], i)

LEMMA RecipientType ==
  ASSUME NEW recipients \in RecipientLists
  PROVE  /\ recipients \in Seq(Users) /\ recipients # << >>
         /\ \A to \in Range(recipients) : to \in Users
BY RecipientsAssumption DEF Range

LEMMA Bounds == MaxPackets \in Nat /\ DOMAIN BrokerKeys = 1 .. MaxPackets
                  /\ DOMAIN SecretNonces = 1 .. MaxPackets
BY FreshAssumption DEF MaxPackets

LEMMA SendStep ==
  ASSUME PacketsInv, NEW sender \in Users, Send(sender)
  PROVE  /\ PacketsInv'
         /\ \A i \in 1 .. Len(packets) : i \in 1 .. Len(packets') /\ packets'[i] = packets[i]
<1> DEFINE n == Len(packets)
<1>1. n \in Nat /\ n + 1 \in 1 .. MaxPackets
  BY Bounds DEF PacketsInv, Send
<1>2. PICK nonce \in PublicNonces, recipients \in RecipientLists, message \in Messages :
        \E to \in Range(recipients) :
          packets' = Append(packets, Packet(n + 1, sender, nonce, sender,
                                            recipients, to, message))
  BY DEF Send
<1>3. PICK to \in Range(recipients) :
        packets' = Append(packets, Packet(n + 1, sender, nonce, sender,
                                          recipients, to, message))
  BY <1>2
<1> DEFINE new == Packet(n + 1, sender, nonce, sender, recipients, to, message)
<1>4. new \in Published
  <2>1. to \in Users
    BY RecipientType
  <2>2. QED
    BY <1>1, <2>1 DEF Published
<1>5. SentAs(new, n + 1)
  <2>1. /\ new.sender = sender /\ new.recipients = recipients
        /\ new.to = to /\ new.message = message
    BY DEF Packet
  <2>2. QED
    BY <2>1 DEF SentAs
<1> HIDE DEF new
<1>6. /\ packets' \in Seq(Published) /\ Len(packets') = n + 1
      /\ \A i \in 1 .. n : packets'[i] = packets[i]
      /\ packets'[n + 1] = new
  BY <1>3, <1>4 DEF PacketsInv, new
<1>7. \A i \in 1 .. n + 1 : SentAs(packets'[i], i)
  BY <1>1, <1>5, <1>6 DEF PacketsInv
<1>8. QED
  BY <1>1, <1>6, <1>7 DEF PacketsInv

\* All that the properties ask of a published packet.
LEMMA PublishedPacket ==
  ASSUME PacketsInv, NEW i \in 1 .. Len(packets)
  PROVE  LET packet == packets[i]
             md == packet.metadata
         IN /\ packet.sender \in Users /\ packet.to \in Range(packet.recipients)
            /\ packet.to \in Users /\ packet.message \in Seq(Entry)
            /\ packet.message \in Messages
            /\ i \in 1 .. MaxPackets
            /\ packet.data = EncryptMessage(packet.message, SecretNonces[i],
                                            packet.to, packet.sender)
            /\ IsNew(md, Users, packet.sender, packet.recipients, SecretNonces[i])
            /\ md.hash = compute_root_hash(packet.origin, md.nonce, packet.sender, md.broker,
                                           SecretNonces[i], packet.recipients, packet.message)
            /\ \A user \in Users : [md EXCEPT !.channels = OpenChannels(md, user)] # Failed
<1> DEFINE packet == packets[i]
           sender == packet.sender
           recipients == packet.recipients
           message == packet.message
           md == packet.metadata
           secret == SecretNonces[i]
<1>1. i \in 1 .. MaxPackets
  BY Bounds DEF PacketsInv
<1>2. /\ sender \in Users /\ recipients \in RecipientLists
      /\ packet.to \in Range(recipients) /\ message \in Messages
  BY DEF PacketsInv, SentAs
<1>3. PICK nonce \in PublicNonces :
        packet = Packet(i, sender, nonce, sender, recipients, packet.to, message)
  BY DEF PacketsInv, SentAs
<1> HIDE DEF packet
<1>4. /\ BrokerKeys[i] \in KeyPairs \ Users /\ secret \in Nonces /\ nonce \in Nonces
      /\ Users \subseteq KeyPairs
  BY <1>1, FreshAssumption, UsersAssumption, Bounds
<1> DEFINE new == new_encrypted(sender, nonce, sender, recipients, message,
                                BrokerKeys[i], secret)
<1>5. /\ packet.origin = sender /\ md = new
      /\ packet.data = EncryptMessage(message, secret, packet.to, sender)
  <2> DEFINE to == packet.to
             whole == Packet(i, sender, nonce, sender, recipients, to, message)
  <2> HIDE DEF new, sender, recipients, message, to
  <2>1. /\ whole.origin = sender
        /\ whole.metadata = new
        /\ whole.data = EncryptMessage(message, secret, to, sender)
    BY DEF Packet, new
  <2> HIDE DEF whole
  <2>2. packet = whole
    BY <1>3 DEF whole, to, sender, recipients, message
  <2>3. QED
    BY <2>1, <2>2 DEF to
<1>6. recipients \in Seq(Users) /\ packet.to \in Users
  BY <1>2, RecipientType
<1>7. /\ IsNew(new, Users, sender, recipients, secret)
      /\ new.hash = compute_root_hash(sender, nonce, sender, BrokerKeys[i], secret,
                                      recipients, message)
      /\ new.nonce = nonce /\ new.broker = BrokerKeys[i]
  <2> HIDE DEF sender, recipients, message, secret
  <2>1. QED
    BY <1>2, <1>4, <1>6 DEF new_encrypted, IsNew
<1>8. \A user \in Users : [new EXCEPT !.channels = OpenChannels(new, user)] # Failed
  BY <1>2, <1>4, ResultAssumption
<1>9. message \in Seq(Entry)
  BY <1>2, MessagesAssumption DEF Entry
<1> HIDE DEF new, md, message, recipients, sender, secret
<1>10. QED
  BY <1>1, <1>2, <1>5, <1>6, <1>7, <1>8, <1>9
     DEF md, message, recipients, sender, secret, packet

-----------------------------------------------------------------------------
(* The inductive invariant *)

\* What a reader got, if it got entries, is the message of its own event.
ReadInv ==
  reading # Nothing /\ reading.result \notin {Failed, NoChannel, << >>} =>
    LET packet == packets[reading.event] IN
    /\ reading.event \in 1 .. Len(packets)
    /\ reading.data = reading.event
    /\ {reading.user, reading.peer} = {packet.sender, packet.to}
    /\ reading.result = packet.message

\* The channel that a party of the event opens has the nonce of the event.
LEMMA FirstChannel ==
  ASSUME PacketsInv, NEW i \in 1 .. Len(packets), NEW user \in Users,
         user \in Range(packets[i].recipients) \cup {packets[i].sender}
  PROVE  LET packet == packets[i]
             opened == decrypt(packet.metadata, user)
         IN /\ opened.channels[1] = Channel(packet.sender, packet.recipients, SecretNonces[i])
            /\ opened.channels[1].nonce = SecretNonces[i]
<1> DEFINE packet == packets[i]
           md == packet.metadata
           channels == OpenChannels(md, user)
           opened == [md EXCEPT !.channels = channels]
           channel == Channel(packet.sender, packet.recipients, SecretNonces[i])
<1>1. IsNew(md, Users, packet.sender, packet.recipients, SecretNonces[i])
  BY PublishedPacket
<1>2. /\ decrypt(md, user) = opened
      /\ opened.channels = channels
      /\ channels[1] = channel
  <2> HIDE DEF packet, md
  <2>1. user \in Range(packet.recipients) \cup {packet.sender}
    BY DEF packet
  <2>2. QED
    BY <1>1, <2>1, DecryptResult
<1>3. channel.nonce = SecretNonces[i]
  BY DEF Channel
<1> HIDE DEF channel, opened, channels
<1>4. QED
  BY <1>2, <1>3 DEF channel, md, packet

\* A reader that finds a channel is a party, and has its nonce from it.
LEMMA PartyFindsChannel ==
  ASSUME PacketsInv, NEW i \in 1 .. Len(packets), NEW user \in Users,
         decrypt(packets[i].metadata, user).channels # << >>
  PROVE  user \in Range(packets[i].recipients) \cup {packets[i].sender}
<1> DEFINE packet == packets[i]
           md == packet.metadata
           sender == packet.sender
           recipients == packet.recipients
           secret == SecretNonces[i]
           channels == OpenChannels(md, user)
           opened == [md EXCEPT !.channels = channels]
<1>1. IsNew(md, Users, sender, recipients, secret)
  BY PublishedPacket
<1>2. /\ decrypt(md, user) = opened /\ opened.channels = channels
      /\ user \notin Range(recipients) \cup {sender} => channels = << >>
  <2> HIDE DEF md, sender, recipients, secret
  <2>1. QED
    BY <1>1, DecryptResult
<1> HIDE DEF channels, opened
<1>3. QED
  BY <1>2 DEF md, sender, recipients, packet

LEMMA ReadStep ==
  ASSUME PacketsInv, ReadInv, NEW user \in Users, Read(user)
  PROVE  ReadInv'
<1>1. PICK i \in DOMAIN packets, j \in DOMAIN packets :
        LET opened == decrypt(packets[i].metadata, user) IN
        /\ opened.channels # << >>
        /\ \E peer \in Range(opened.channels[1].parties) :
             reading' = [user |-> user, event |-> i, data |-> j, peer |-> peer,
                         result |-> DecryptMessage(packets[j].data,
                                                   opened.channels[1].nonce, peer, user)]
  BY DEF Read
<1>2. i \in 1 .. Len(packets) /\ j \in 1 .. Len(packets) /\ packets' = packets
  BY <1>1 DEF PacketsInv, Read
<1>3. decrypt(packets[i].metadata, user).channels[1].nonce = SecretNonces[i]
  BY <1>1, <1>2, PartyFindsChannel, FirstChannel
<1>4. PICK peer :
        reading' = [user |-> user, event |-> i, data |-> j, peer |-> peer,
                    result |-> DecryptMessage(packets[j].data, SecretNonces[i], peer, user)]
  BY <1>1, <1>3
<1> DEFINE packet == packets[j]
           result == DecryptMessage(packet.data, SecretNonces[i], peer, user)
<1>5. /\ packet.message \in Seq(Entry)
      /\ packet.data = EncryptMessage(packet.message, SecretNonces[j],
                                      packet.to, packet.sender)
  BY <1>2, PublishedPacket
<1>6. \/ result \in {Failed, << >>}
      \/ /\ result = packet.message
         /\ SecretNonces[j] = SecretNonces[i]
         /\ {packet.to, packet.sender} = {peer, user}
  <2> DEFINE message == packet.message
             to == packet.to
             sender == packet.sender
             own == SecretNonces[j]
             nonce == SecretNonces[i]
             data == EncryptMessage(message, own, to, sender)
  <2>1. message \in Seq(Entry) /\ packet.data = data
    BY <1>5
  <2> HIDE DEF message, to, sender, own, nonce, result, packet
  <2> DEFINE fits == own = nonce /\ SamePair(to, sender, peer, user)
  <2>2. /\ fits => DecryptMessage(data, nonce, peer, user) = message
        /\ ~fits => DecryptMessage(data, nonce, peer, user) \in {Failed, << >>}
    BY <2>1, DecryptMessageResult
  <2> HIDE DEF data
  <2>3. QED
    BY <2>1, <2>2 DEF SamePair, message, to, sender, own, nonce, packet, result
<1>7. SecretNonces[j] = SecretNonces[i] => i = j
  <2>1. i \in DOMAIN SecretNonces /\ j \in DOMAIN SecretNonces
    BY <1>2, Bounds DEF PacketsInv
  <2>2. QED
    BY <2>1, FreshAssumption DEF IsInjective
<1>8. /\ reading'.event = i /\ reading'.data = j /\ reading'.user = user
      /\ reading'.peer = peer /\ reading'.result = result
  <2> HIDE DEF result
  <2>1. QED
    BY <1>4 DEF result
<1> HIDE DEF result
<1>9. QED
  BY <1>2, <1>6, <1>7, <1>8 DEF ReadInv

LEMMA NextStep ==
  ASSUME PacketsInv, ReadInv, [Next]_vars
  PROVE  PacketsInv' /\ ReadInv'
<1>1. CASE UNCHANGED vars
  BY <1>1 DEF vars, PacketsInv, ReadInv
<1>2. ASSUME NEW sender \in Users, Send(sender) PROVE PacketsInv' /\ ReadInv'
  <2>1. /\ PacketsInv'
        /\ \A i \in 1 .. Len(packets) : i \in 1 .. Len(packets') /\ packets'[i] = packets[i]
    BY <1>2, SendStep
  <2>2. reading' = reading
    BY <1>2 DEF Send
  <2>3. QED
    BY <2>1, <2>2 DEF ReadInv
<1>3. ASSUME NEW user \in Users, FindNoChannel(user) PROVE PacketsInv' /\ ReadInv'
  <2>1. packets' = packets /\ reading'.result = NoChannel
    BY <1>3 DEF FindNoChannel
  <2>2. QED
    BY <2>1 DEF PacketsInv, ReadInv
<1>4. ASSUME NEW user \in Users, Read(user) PROVE PacketsInv' /\ ReadInv'
  <2>1. packets' = packets
    BY <1>4 DEF Read
  <2>2. QED
    BY <1>4, <2>1, ReadStep DEF PacketsInv
<1>5. QED
  BY <1>1, <1>2, <1>3, <1>4 DEF Next

\* Whatever the users do, every packet is the one that its sender made with
\* the keys and the nonce drawn for it.
THEOREM ExchangeInvariant == Spec => [](PacketsInv /\ ReadInv)
<1>1. Init => PacketsInv /\ ReadInv
  BY Bounds DEF Init, PacketsInv, ReadInv
<1>2. PacketsInv /\ ReadInv /\ [Next]_vars => (PacketsInv /\ ReadInv)'
  BY NextStep
<1>3. QED
  BY <1>1, <1>2, PTL DEF Spec

-----------------------------------------------------------------------------
(* The properties of the run *)

\* A reader that gets entries has read the message of its event, as it was
\* sent, and is one of the two users it was encrypted for (client/cypher and
\* MessageMetadata::decrypt, as client/src/main.rs uses them).
THEOREM ReadersGetTheirMessage == Spec => []NoMisreading
<1>1. ReadInv => NoMisreading
  BY DEF ReadInv, NoMisreading
<1>2. QED
  BY <1>1, ExchangeInvariant, PTL

\* MessageMetadata::decrypt succeeds for every user, and opens one channel for
\* each time that the user is named, whole and with everyone in it.
THEOREM OnlyPartiesOpenChannels == Spec => []ChannelsOpenForParties
<1>1. ASSUME PacketsInv PROVE ChannelsOpenForParties
  <2> SUFFICES ASSUME NEW i \in DOMAIN packets, NEW user \in Users
               PROVE  LET opened == decrypt(packets[i].metadata, user) IN
                      /\ opened # Failed
                      /\ Len(opened.channels) =
                           Cardinality({p \in DOMAIN PartiesOf(i) : PartiesOf(i)[p] = user})
                      /\ \A c \in DOMAIN opened.channels :
                           opened.channels[c] =
                             [nonce |-> SecretNonces[i], parties |-> PartiesOf(i)]
    BY DEF ChannelsOpenForParties
  <2> DEFINE packet == packets[i]
             sender == packet.sender
             recipients == packet.recipients
             md == packet.metadata
             secret == SecretNonces[i]
             channels == OpenChannels(md, user)
             opened == [md EXCEPT !.channels = channels]
  <2>1. i \in 1 .. Len(packets)
    BY <1>1 DEF PacketsInv
  <2>2. IsNew(md, Users, sender, recipients, secret) /\ opened # Failed
    BY <1>1, <2>1, PublishedPacket
  <2>3. DOMAIN Parties(sender, recipients) = 1 .. Len(Parties(sender, recipients))
    <3> HIDE DEF sender, recipients
    <3>1. Parties(sender, recipients) \in Seq(Users)
      BY <2>2, PartiesType DEF IsNew
    <3>2. QED
      BY <3>1
  <2>4. PartiesOf(i) = Parties(sender, recipients)
    BY DEF PartiesOf
  <2>5. /\ decrypt(md, user) = opened /\ opened.channels = channels
        /\ Len(channels) = Cardinality(Places(Parties(sender, recipients), user))
        /\ \A c \in DOMAIN channels : channels[c] = Channel(sender, recipients, secret)
    <3> HIDE DEF sender, recipients, md, secret
    <3>1. QED
      BY <2>2, DecryptResult
  <2>6. Places(Parties(sender, recipients), user) =
          {p \in DOMAIN PartiesOf(i) : PartiesOf(i)[p] = user}
    BY <2>3, <2>4 DEF Places
  <2>7. Channel(sender, recipients, secret) = [nonce |-> SecretNonces[i], parties |-> PartiesOf(i)]
    BY <2>4 DEF Channel
  <2> HIDE DEF opened, channels, sender, recipients
  <2>8. QED
    BY <2>2, <2>5, <2>6, <2>7 DEF md, packet
<1>2. QED
  BY <1>1, ExchangeInvariant, PTL

\* The recipient that a message is encrypted for reads it with the nonce of its
\* first channel and the sender's key (client/src/main.rs:112-124).
THEOREM RecipientsRead == Spec => []RecipientReads
<1>1. ASSUME PacketsInv PROVE RecipientReads
  <2> SUFFICES ASSUME NEW i \in DOMAIN packets
               PROVE  DecryptMessage(packets[i].data,
                        decrypt(packets[i].metadata, packets[i].to).channels[1].nonce,
                        packets[i].sender, packets[i].to) = packets[i].message
    BY DEF RecipientReads
  <2>1. i \in 1 .. Len(packets)
    BY <1>1 DEF PacketsInv
  <2> DEFINE packet == packets[i]
             sender == packet.sender
             to == packet.to
             message == packet.message
             secret == SecretNonces[i]
  <2>2. /\ to \in Users /\ to \in Range(packet.recipients) /\ message \in Seq(Entry)
        /\ packet.data = EncryptMessage(message, secret, to, sender)
    BY <1>1, <2>1, PublishedPacket
  <2>3. decrypt(packet.metadata, to).channels[1].nonce = secret
    BY <1>1, <2>1, <2>2, FirstChannel
  <2>4. SamePair(to, sender, sender, to)
    BY DEF SamePair
  <2> HIDE DEF sender, to, message, secret
  <2>5. DecryptMessage(EncryptMessage(message, secret, to, sender), secret, sender, to) = message
    BY <2>2, <2>4, DecryptMessageOpens
  <2>6. QED
    BY <2>2, <2>3, <2>5 DEF message, to, sender
<1>2. QED
  BY <1>1, ExchangeInvariant, PTL

\* What new_encrypted builds passes check_metadata of the pallet: as many boxes
\* in every channel as there are channels, and none of them empty.
THEOREM PalletAcceptsClients == Spec => []PalletAccepts
<1>1. ASSUME PacketsInv PROVE PalletAccepts
  <2> SUFFICES ASSUME NEW i \in DOMAIN packets
               PROVE  Pallet!MetadataFormed(packets[i].metadata)
    BY DEF PalletAccepts
  <2> DEFINE packet == packets[i]
             md == packet.metadata
             sender == packet.sender
             recipients == packet.recipients
             secret == SecretNonces[i]
             parties == Parties(sender, recipients)
             n == Len(parties)
  <2>1. i \in 1 .. Len(packets)
    BY <1>1 DEF PacketsInv
  <2>2. IsNew(md, Users, sender, recipients, secret)
    BY <1>1, <2>1, PublishedPacket
  <2> HIDE DEF sender, recipients
  <2>3. /\ DOMAIN md.channels = 1 .. n /\ Len(md.channels) = n
        /\ \A c \in 1 .. n : md.channels[c] =
             [nonce   |-> Encrypt(secret, md.nonce, parties[c], md.broker),
              parties |-> [p \in 1 .. n |-> Encrypt(parties[p], secret, parties[c], md.broker)]]
    <3> HIDE DEF md, secret
    <3>1. QED
      BY <2>2, NewChannels
  <2>4. /\ parties \in Seq(Users) /\ n \in Nat /\ n # 0
        /\ \A p \in 1 .. n : parties[p] \in Users
    <3>1. parties \in Seq(Users) /\ n = Len(recipients) + 1
          /\ Len(recipients) \in Nat
      BY <2>2, PartiesType DEF IsNew
    <3> HIDE DEF parties
    <3>2. QED
      BY <3>1
  <2>5. /\ Users \subseteq KeyPairs /\ md.broker \in KeyPairs
        /\ md.nonce \in Nonces /\ secret \in Nonces /\ secret \in Plain
        /\ \A p \in 1 .. n : parties[p] \in KeyPairs /\ parties[p] \in Plain
    BY <2>2, <2>4 DEF IsNew, Plain
  <2> HIDE DEF md, secret, parties, n
  <2>6. ASSUME NEW c \in 1 .. n
        PROVE  /\ md.channels[c].nonce # Nothing
               /\ DOMAIN md.channels[c].parties = 1 .. n
               /\ Len(md.channels[c].parties) = n
               /\ \A p \in 1 .. n : md.channels[c].parties[p] # Nothing
    <3>1. /\ md.channels[c].nonce = Encrypt(secret, md.nonce, parties[c], md.broker)
          /\ md.channels[c].parties =
               [p \in 1 .. n |-> Encrypt(parties[p], secret, parties[c], md.broker)]
      <4> DEFINE channel == md.channels[c]
      <4>1. channel =
              [nonce   |-> Encrypt(secret, md.nonce, parties[c], md.broker),
               parties |-> [p \in 1 .. n |->
                              Encrypt(parties[p], secret, parties[c], md.broker)]]
        BY <2>3
      <4> HIDE DEF channel
      <4>2. channel.nonce = Encrypt(secret, md.nonce, parties[c], md.broker)
            /\ channel.parties =
                 [p \in 1 .. n |-> Encrypt(parties[p], secret, parties[c], md.broker)]
        BY <4>1
      <4>3. QED
        BY <4>2 DEF channel
    <3>2. /\ Encrypt(secret, md.nonce, parties[c], md.broker) # Nothing
          /\ \A p \in 1 .. n : Encrypt(parties[p], secret, parties[c], md.broker) # Nothing
      BY <2>5, BoxAssumption
    <3>3. QED
      BY <2>4, <3>1, <3>2
  <2>7. md.channels # << >>
    BY <2>3, <2>4
  <2>8. QED
    BY <2>3, <2>6, <2>7 DEF Pallet!MetadataFormed, md
<1>2. QED
  BY <1>1, ExchangeInvariant, PTL

-----------------------------------------------------------------------------
(* The root hash *)

Pairs(H) == {<<a, b>> : a \in H, b \in H}

\* f has the components of the pairs in s, one after the other.
InPairs(f, s) ==
  /\ Len(f) = 2 * Len(s)
  /\ \A k \in 1 .. Len(s) : f[2 * k - 1] = s[k][1] /\ f[2 * k] = s[k][2]

LEMMA PairType ==
  ASSUME NEW H, NEW p \in Pairs(H)
  PROVE  p \in Seq(H) /\ Len(p) = 2
<1>1. PICK a \in H, b \in H : p = <<a, b>>
  BY DEF Pairs
<1>2. QED
  BY <1>1

\* The components of one more pair.
LEMMA ConcatPair ==
  ASSUME NEW H, NEW s, NEW f \in Seq(H), NEW p \in Seq(H), Len(s) \in Nat, Len(p) = 2,
         Len(f) = 2 * Len(s)
  PROVE  LET n == Len(s) IN
         /\ f \o p \in Seq(H) /\ Len(f \o p) = 2 * (n + 1)
         /\ \A k \in 1 .. n : /\ (f \o p)[2 * k - 1] = f[2 * k - 1]
                              /\ (f \o p)[2 * k] = f[2 * k]
         /\ (f \o p)[2 * (n + 1) - 1] = p[1] /\ (f \o p)[2 * (n + 1)] = p[2]
<1> DEFINE n == Len(s)
           double == 2 * n
<1>1. /\ f \o p \in Seq(H) /\ Len(f \o p) = Len(f) + Len(p)
      /\ \A i \in 1 .. Len(f) + Len(p) :
           (f \o p)[i] = IF i <= Len(f) THEN f[i] ELSE p[i - Len(f)]
  BY ConcatProperties
<1>2. n \in Nat /\ double \in Nat /\ Len(f) = double /\ Len(p) = 2
  OBVIOUS
<1> DEFINE g == f \o p
<1> HIDE DEF g
<1>3. /\ g \in Seq(H) /\ Len(g) = double + 2
      /\ \A i \in 1 .. double + 2 : g[i] = IF i <= double THEN f[i] ELSE p[i - double]
  BY <1>1, <1>2 DEF g
<1> HIDE DEF n, double
<1>4. g[double + 1] = p[1] /\ g[double + 2] = p[2]
  <2>1. /\ double + 1 \in 1 .. double + 2 /\ ~(double + 1 <= double)
        /\ double + 2 \in 1 .. double + 2 /\ ~(double + 2 <= double)
        /\ (double + 1) - double = 1 /\ (double + 2) - double = 2
    BY <1>2
  <2>2. QED
    BY <1>3, <2>1
<1>5. \A i \in 1 .. double : g[i] = f[i]
  BY <1>2, <1>3
<1>6. ASSUME NEW k \in 1 .. n PROVE 2 * k - 1 \in 1 .. double /\ 2 * k \in 1 .. double
  BY <1>2 DEF double
<1>7. \A k \in 1 .. n : g[2 * k - 1] = f[2 * k - 1] /\ g[2 * k] = f[2 * k]
  BY <1>5, <1>6
<1>8. 2 * (n + 1) - 1 = double + 1 /\ 2 * (n + 1) = double + 2
  BY <1>2 DEF double
<1>9. QED
  BY <1>3, <1>4, <1>7, <1>8 DEF g, n

LEMMA InPairsStep ==
  ASSUME NEW H, NEW s \in Seq(Pairs(H)), NEW f \in Seq(H), InPairs(f, s),
         NEW p \in Pairs(H)
  PROVE  f \o p \in Seq(H) /\ InPairs(f \o p, Append(s, p))
<1> DEFINE n == Len(s)
           g == f \o p
           long == Append(s, p)
<1>1. n \in Nat /\ p \in Seq(H) /\ Len(p) = 2 /\ Len(f) = 2 * n
  BY PairType DEF InPairs
<1>2. /\ g \in Seq(H) /\ Len(g) = 2 * (n + 1)
      /\ \A k \in 1 .. n : g[2 * k - 1] = f[2 * k - 1] /\ g[2 * k] = f[2 * k]
      /\ g[2 * (n + 1) - 1] = p[1] /\ g[2 * (n + 1)] = p[2]
  BY <1>1, ConcatPair
<1>3. Len(long) = n + 1 /\ long[n + 1] = p /\ \A k \in 1 .. n : long[k] = s[k]
  BY AppendProperties, LenProperties
<1>4. \A k \in 1 .. n : f[2 * k - 1] = s[k][1] /\ f[2 * k] = s[k][2]
  BY DEF InPairs
<1> HIDE DEF g, long, n
<1>5. ASSUME NEW k \in 1 .. n + 1 PROVE g[2 * k - 1] = long[k][1] /\ g[2 * k] = long[k][2]
  <2>1. CASE k = n + 1
    BY <1>2, <1>3, <2>1
  <2>2. CASE k # n + 1
    <3>1. k \in 1 .. n
      BY <1>1, <2>2
    <3>2. QED
      BY <1>2, <1>3, <1>4, <3>1
  <2>3. QED
    BY <2>1, <2>2
<1>6. InPairs(g, long)
  BY <1>2, <1>3, <1>5 DEF InPairs
<1>7. QED
  BY <1>2, <1>6 DEF g, long

LEMMA FlattenPairs ==
  ASSUME NEW H, NEW ps \in Seq(Pairs(H))
  PROVE  FlattenSeq(ps) \in Seq(H) /\ InPairs(FlattenSeq(ps), ps)
<1> DEFINE Good(s) == FlattenSeq(s) \in Seq(H) /\ InPairs(FlattenSeq(s), s)
           T == {s \in Seq(Pairs(H)) : Good(s)}
<1>1. << >> \in T
  <2>1. Len(<< >>) = 0 /\ << >> \in Seq(H)
    BY EmptySeq
  <2>2. FlattenSeq(<< >>) = << >>
    BY <2>1 DEF FlattenSeq
  <2>3. InPairs(<< >>, << >>)
    BY <2>1 DEF InPairs
  <2>4. Good(<< >>)
    <3>1. \A f : f = << >> => f \in Seq(H) /\ InPairs(f, << >>)
      BY <2>1, <2>3
    <3>2. QED
      BY <2>2, <3>1
  <2> HIDE DEF Good
  <2>5. << >> \in Seq(Pairs(H))
    BY EmptySeq
  <2>6. QED
    BY <2>4, <2>5
<1>2. ASSUME NEW s \in Seq(Pairs(H)), s \in T, NEW p \in Pairs(H)
      PROVE  Append(s, p) \in T
  <2>1. FlattenSeq(Append(s, p)) = FlattenSeq(s) \o p
    <3>1. s \in Seq(Seq(H)) /\ p \in Seq(H)
      BY PairType
    <3>2. Lists!FlattenSeq(Append(s, p)) = Lists!FlattenSeq(s) \o p
      BY <3>1, Lists!FlattenAppend
    <3>3. \A t : FlattenSeq(t) = Lists!FlattenSeq(t)
      BY DEF FlattenSeq, Lists!FlattenSeq
    <3>4. QED
      BY <3>2, <3>3
  <2>2. Good(s)
    BY <1>2
  <2>3. Append(s, p) \in Seq(Pairs(H))
    BY AppendProperties
  <2>4. Good(Append(s, p))
    BY <2>1, <2>2, InPairsStep
  <2> HIDE DEF Good
  <2>5. QED
    BY <2>3, <2>4
<1> HIDE DEF T
<1>3. \A s \in Seq(Pairs(H)) : s \in T
  BY <1>1, <1>2, Lists!SeqInductionSet
<1>4. QED
  BY <1>3 DEF T

\* The entries' hash is that of another message only if their keys, their
\* values or the order of them differ; the kinds are not in it.
LEMMA EntriesHashTells ==
  ASSUME NEW m1 \in Seq(Entry), NEW m2 \in Seq(Entry), NEW nonce
  PROVE  EntriesHash(m1, nonce) = EntriesHash(m2, nonce) <=> Unkinded(m1) = Unkinded(m2)
<1> DEFINE H == {hash_with_nonce(c, nonce) : c \in Contents}
           pairs(m) == [i \in DOMAIN m |-> <<hash_with_nonce(m[i].key, nonce),
                                             hash_with_nonce(m[i].value, nonce)>>]
           flat(m) == FlattenSeq(pairs(m))
<1>1. \A c, d : hash_with_nonce(c, nonce) = hash_with_nonce(d, nonce) <=> c = d
  BY DEF hash_with_nonce, Hash
<1>2. ASSUME NEW m \in Seq(Entry)
      PROVE  /\ DOMAIN m = 1 .. Len(m) /\ Len(m) \in Nat
             /\ pairs(m) \in Seq(Pairs(H)) /\ Len(pairs(m)) = Len(m)
             /\ DOMAIN Unkinded(m) = 1 .. Len(m)
             /\ \A k \in 1 .. Len(m) :
                  /\ pairs(m)[k][1] = hash_with_nonce(m[k].key, nonce)
                  /\ pairs(m)[k][2] = hash_with_nonce(m[k].value, nonce)
                  /\ Unkinded(m)[k] = <<m[k].key, m[k].value>>
  <2>1. /\ DOMAIN m = 1 .. Len(m) /\ Len(m) \in Nat
        /\ \A k \in 1 .. Len(m) : m[k] \in Entry
    OBVIOUS
  <2>2. ASSUME NEW k \in 1 .. Len(m)
        PROVE  <<hash_with_nonce(m[k].key, nonce), hash_with_nonce(m[k].value, nonce)>> \in Pairs(H)
    <3>1. m[k].key \in Contents /\ m[k].value \in Contents
      BY <2>1 DEF Entry
    <3>2. hash_with_nonce(m[k].key, nonce) \in H /\ hash_with_nonce(m[k].value, nonce) \in H
      BY <3>1
    <3> HIDE DEF H
    <3>3. QED
      BY <3>2 DEF Pairs
  <2> HIDE DEF H
  <2>3. QED
    BY <2>1, <2>2 DEF Unkinded
<1>3. ASSUME NEW m \in Seq(Entry)
      PROVE  /\ flat(m) \in Seq(H) /\ Len(flat(m)) = 2 * Len(m)
             /\ \A k \in 1 .. Len(m) :
                  /\ flat(m)[2 * k - 1] = hash_with_nonce(m[k].key, nonce)
                  /\ flat(m)[2 * k] = hash_with_nonce(m[k].value, nonce)
  <2> DEFINE ps == pairs(m)
             f == FlattenSeq(ps)
  <2>1. /\ f \in Seq(H) /\ Len(f) = 2 * Len(ps)
        /\ \A k \in 1 .. Len(ps) : f[2 * k - 1] = ps[k][1] /\ f[2 * k] = ps[k][2]
    <3>1. ps \in Seq(Pairs(H))
      BY <1>2
    <3> HIDE DEF H, ps
    <3>2. QED
      BY <3>1, FlattenPairs DEF InPairs
  <2>2. flat(m) = f
    OBVIOUS
  <2>3. /\ Len(ps) = Len(m)
        /\ \A k \in 1 .. Len(m) : /\ ps[k][1] = hash_with_nonce(m[k].key, nonce)
                                   /\ ps[k][2] = hash_with_nonce(m[k].value, nonce)
    BY <1>2
  <2> HIDE DEF H, ps, f, flat
  <2>4. QED
    BY <2>1, <2>2, <2>3
<1>4. EntriesHash(m1, nonce) = EntriesHash(m2, nonce)
        <=> Append(flat(m1), nonce) = Append(flat(m2), nonce)
  BY DEF EntriesHash, Hash
<1> HIDE DEF H, pairs, flat
<1>5. Append(flat(m1), nonce) = Append(flat(m2), nonce) <=> flat(m1) = flat(m2)
  <2> DEFINE f1 == flat(m1)
             f2 == flat(m2)
  <2>1. f1 \in Seq(H) /\ f2 \in Seq(H)
    BY <1>3
  <2> HIDE DEF f1, f2
  <2>2. Append(f1, nonce) = Append(f2, nonce) => f1 = f2
    <3> SUFFICES ASSUME Append(f1, nonce) = Append(f2, nonce) PROVE f1 = f2
      OBVIOUS
    <3>1. Len(f1) \in Nat /\ Len(f2) \in Nat /\ Len(f1) + 1 = Len(f2) + 1
      BY <2>1
    <3>2. \A k \in 1 .. Len(f1) : f1[k] = f2[k]
      BY <2>1, <3>1
    <3>3. QED
      BY <2>1, <3>1, <3>2, SeqEqual
  <2>3. QED
    BY <2>2 DEF f1, f2
<1>6. ASSUME flat(m1) = flat(m2) PROVE Unkinded(m1) = Unkinded(m2)
  <2>1. Len(m1) = Len(m2)
    BY <1>2, <1>3, <1>6
  <2>2. ASSUME NEW k \in 1 .. Len(m1) PROVE Unkinded(m1)[k] = Unkinded(m2)[k]
    <3>1. /\ hash_with_nonce(m1[k].key, nonce) = hash_with_nonce(m2[k].key, nonce)
          /\ hash_with_nonce(m1[k].value, nonce) = hash_with_nonce(m2[k].value, nonce)
      BY <1>3, <1>6, <2>1
    <3>2. QED
      BY <1>1, <1>2, <2>1, <3>1
  <2>3. QED
    BY <1>2, <2>1, <2>2 DEF Unkinded
<1>7. ASSUME Unkinded(m1) = Unkinded(m2) PROVE pairs(m1) = pairs(m2)
  <2>1. DOMAIN m1 = DOMAIN m2
    BY <1>7 DEF Unkinded
  <2>2. ASSUME NEW k \in DOMAIN m1
        PROVE  m1[k].key = m2[k].key /\ m1[k].value = m2[k].value
    <3>1. Unkinded(m1)[k] = <<m1[k].key, m1[k].value>> /\ Unkinded(m2)[k] = <<m2[k].key, m2[k].value>>
      BY <2>1 DEF Unkinded
    <3>2. QED
      BY <1>7, <3>1
  <2>3. QED
    BY <2>1, <2>2 DEF pairs
<1>8. QED
  BY <1>4, <1>5, <1>6, <1>7 DEF flat

\* Of all that it covers, the root hash tells entries apart when the rest is
\* the same.
LEMMA RootHashTells ==
  ASSUME NEW m1 \in Seq(Entry), NEW m2 \in Seq(Entry), NEW origin, NEW public_nonce,
         NEW sender, NEW broker, NEW secret_nonce, NEW recipients
  PROVE  compute_root_hash(origin, public_nonce, sender, broker, secret_nonce, recipients, m1) =
         compute_root_hash(origin, public_nonce, sender, broker, secret_nonce, recipients, m2)
           <=> Unkinded(m1) = Unkinded(m2)
<1> DEFINE e1 == EntriesHash(m1, secret_nonce)
           e2 == EntriesHash(m2, secret_nonce)
<1>1. e1 = e2 <=> Unkinded(m1) = Unkinded(m2)
  BY EntriesHashTells
<1> HIDE DEF e1, e2
<1>2. compute_root_hash(origin, public_nonce, sender, broker, secret_nonce, recipients, m1) =
      compute_root_hash(origin, public_nonce, sender, broker, secret_nonce, recipients, m2)
        <=> e1 = e2
  BY DEF compute_root_hash, Hash, e1, e2
<1>3. QED
  BY <1>1, <1>2

\* The recipient of a message recomputes the root hash from what it decrypts,
\* and no message with other contents has that hash (compute_root_hash).
THEOREM RootHashesTellContents == Spec => []HashTellsContents
<1>1. ASSUME PacketsInv PROVE HashTellsContents
  <2> SUFFICES ASSUME NEW i \in DOMAIN packets, NEW message \in Messages
               PROVE  RootHash(i, message) = packets[i].metadata.hash
                        <=> Unkinded(message) = Unkinded(packets[i].message)
    BY DEF HashTellsContents
  <2> DEFINE packet == packets[i]
             md == packet.metadata
             origin == packet.origin
             sender == packet.sender
             recipients == packet.recipients
             to == packet.to
             sent == packet.message
             secret == SecretNonces[i]
             channels == OpenChannels(md, to)
             opened == [md EXCEPT !.channels = channels]
             channel == Channel(sender, recipients, secret)
             root(m) == compute_root_hash(origin, md.nonce, sender, md.broker, secret,
                                          recipients, m)
  <2>1. i \in 1 .. Len(packets)
    BY <1>1 DEF PacketsInv
  <2>2. /\ to \in Users /\ to \in Range(recipients) /\ sent \in Seq(Entry)
        /\ message \in Seq(Entry)
        /\ IsNew(md, Users, sender, recipients, secret)
        /\ md.hash = root(sent)
    BY <1>1, <2>1, PublishedPacket, MessagesAssumption DEF Entry
  <2>3. /\ decrypt(md, to) = opened /\ opened.nonce = md.nonce
        /\ opened.broker = md.broker /\ opened.channels = channels
        /\ channels[1] = channel
    <3> HIDE DEF md, sender, recipients, to, secret
    <3>1. to \in Range(recipients) \cup {sender}
      BY <2>2
    <3>2. QED
      BY <2>2, <3>1, DecryptResult
  <2>4. /\ channel.nonce = secret
        /\ Head(channel.parties) = sender /\ Tail(channel.parties) = recipients
    <3> HIDE DEF sender, recipients, secret
    <3>1. sender \in Users /\ recipients \in Seq(Users)
      BY <2>2 DEF IsNew
    <3>2. channel.nonce = secret /\ channel.parties = Parties(sender, recipients)
      BY DEF Channel
    <3>3. QED
      BY <3>1, <3>2, PartiesType
  <2> HIDE DEF channel, opened, channels
  <2>5. RootHash(i, message) = root(message)
    BY <2>3, <2>4 DEF RootHash
  <2> HIDE DEF origin, sender, recipients, secret, sent, to
  <2>6. root(message) = root(sent) <=> Unkinded(message) = Unkinded(sent)
    <3> DEFINE nonce == md.nonce
               broker == md.broker
    <3> HIDE DEF nonce, broker
    <3>1. compute_root_hash(origin, nonce, sender, broker, secret, recipients, message) =
          compute_root_hash(origin, nonce, sender, broker, secret, recipients, sent)
            <=> Unkinded(message) = Unkinded(sent)
      BY <2>2, RootHashTells
    <3>2. QED
      BY <3>1 DEF nonce, broker
  <2> HIDE DEF root
  <2>7. QED
    BY <2>2, <2>5, <2>6 DEF sent, md
<1>2. QED
  BY <1>1, ExchangeInvariant, PTL

-----------------------------------------------------------------------------
(* Messages through the interfaces *)

\* Entries of the crate, encrypted or not.
Wide == [key : Fields, value : Fields, kind : Kinds]

\* The message with every kind replaced by the one of JavaScript.
Raw(message) ==
  [i \in DOMAIN message |-> [key |-> message[i].key, value |-> message[i].value,
                             kind |-> "RawData"]]

\* A message goes through a Map as raw data, and a Map is no error.
LEMMA RawResult ==
  ASSUME NEW message \in Seq(Wide)
  PROVE  /\ message_from_js(message_to_js(message)) = Raw(message)
         /\ AsRawData(message_to_js(message)) = Raw(message)
         /\ Raw(message) \in Seq(Wide) /\ Raw(Raw(message)) = Raw(message)
         /\ message_to_js(Raw(message)) = message_to_js(message)
         /\ message \notin {Failed, Trap}
         /\ message_to_js(message) \notin {Failed, Trap}
<1> DEFINE n == Len(message)
           js == message_to_js(message)
           raw == Raw(message)
<1>1. /\ n \in Nat /\ DOMAIN message = 1 .. n
      /\ \A i \in 1 .. n : /\ message[i].key \in Fields /\ message[i].value \in Fields
                           /\ message[i].kind \in Kinds
  <2>1. n \in Nat /\ DOMAIN message = 1 .. n /\ \A i \in 1 .. n : message[i] \in Wide
    OBVIOUS
  <2>2. QED
    BY <2>1 DEF Wide
<1> HIDE DEF n
<1>2. /\ DOMAIN js = 1 .. n
      /\ \A i \in 1 .. n : /\ js[i] = [key |-> message[i].key, value |-> message[i].value]
                           /\ js[i].key = message[i].key /\ js[i].value = message[i].value
  BY <1>1 DEF message_to_js
<1>3. /\ DOMAIN raw = 1 .. n
      /\ \A i \in 1 .. n : /\ raw[i] = [key |-> message[i].key, value |-> message[i].value,
                                        kind |-> "RawData"]
                           /\ raw[i].key = message[i].key /\ raw[i].value = message[i].value
  BY <1>1 DEF Raw
<1>4. js = [i \in 1 .. n |-> [key |-> message[i].key, value |-> message[i].value]]
      /\ raw = [i \in 1 .. n |-> [key |-> message[i].key, value |-> message[i].value,
                                  kind |-> "RawData"]]
  BY <1>1 DEF message_to_js, Raw
<1>5. js \in Seq([key : Fields, value : Fields]) /\ raw \in Seq(Wide)
  <2>1. \A i \in 1 .. n :
          /\ [key |-> message[i].key, value |-> message[i].value] \in [key : Fields, value : Fields]
          /\ [key |-> message[i].key, value |-> message[i].value, kind |-> "RawData"] \in Wide
    BY <1>1 DEF Wide, Kinds
  <2> HIDE DEF js, raw
  <2>2. QED
    BY <1>1, <1>4, <2>1
<1> HIDE DEF js, raw
<1>6. message_from_js(js) = raw /\ AsRawData(js) = raw
  BY <1>2, <1>4 DEF message_from_js, AsRawData
<1>7. Raw(raw) = raw /\ message_to_js(raw) = js
  BY <1>3, <1>4 DEF Raw, message_to_js
<1>8. js \notin {Failed, Trap} /\ message \notin {Failed, Trap}
  BY <1>5, ErrorsAssumption DEF Wide
<1>9. QED
  BY <1>5, <1>6, <1>7, <1>8 DEF js, raw

\* So does an encrypted message, and its kinds are those of the message.
LEMMA RawEncrypted ==
  ASSUME NEW message \in Seq(Entry), NEW nonce \in Nonces, NEW pk \in KeyPairs,
         NEW sk \in KeyPairs
  PROVE  LET data == EncryptMessage(message, nonce, pk, sk) IN
         /\ data \in Seq(Wide)
         /\ Raw(data) = EncryptMessage(Raw(message), nonce, pk, sk)
<1> DEFINE n == Len(message)
           data == EncryptMessage(message, nonce, pk, sk)
           raw == Raw(message)
           box(d) == Encrypt(d, nonce, pk, sk)
<1>1. /\ n \in Nat /\ DOMAIN message = 1 .. n
      /\ \A i \in 1 .. n : /\ message[i].key \in Contents /\ message[i].value \in Contents
                           /\ message[i].kind \in Kinds
  <2>1. n \in Nat /\ DOMAIN message = 1 .. n /\ \A i \in 1 .. n : message[i] \in Entry
    OBVIOUS
  <2>2. QED
    BY <2>1 DEF Entry
<1>2. \A d \in Contents : box(d) \in Fields
  BY DEF Fields
<1> HIDE DEF n, box
<1>3. data = [i \in 1 .. n |-> [key |-> box(message[i].key), value |-> box(message[i].value),
                                kind |-> message[i].kind]]
  BY <1>1 DEF EncryptMessage, box
<1>4. /\ DOMAIN raw = 1 .. n
      /\ \A i \in 1 .. n : /\ raw[i].key = message[i].key /\ raw[i].value = message[i].value
                           /\ raw[i].kind = "RawData"
  BY <1>1 DEF Raw
<1> HIDE DEF raw, data
<1>5. EncryptMessage(raw, nonce, pk, sk) =
        [i \in 1 .. n |-> [key |-> box(message[i].key), value |-> box(message[i].value),
                           kind |-> "RawData"]]
  BY <1>4 DEF EncryptMessage, box
<1>6. /\ DOMAIN data = 1 .. n
      /\ \A i \in 1 .. n : data[i].key = box(message[i].key)
                             /\ data[i].value = box(message[i].value)
  BY <1>3
<1>7. Raw(data) = [i \in 1 .. n |-> [key |-> box(message[i].key),
                                     value |-> box(message[i].value), kind |-> "RawData"]]
  BY <1>6 DEF Raw
<1>8. data \in Seq(Wide)
  <2>1. \A i \in 1 .. n : [key |-> box(message[i].key), value |-> box(message[i].value),
                           kind |-> message[i].kind] \in Wide
    BY <1>1, <1>2 DEF Wide
  <2>2. QED
    BY <1>1, <1>3, <2>1
<1>9. QED
  BY <1>5, <1>7, <1>8 DEF raw, data

\* What a caller of an interface means by a message: the same entries, whose
\* kinds are lost in JavaScript.
LEMMA GivenResult ==
  ASSUME NEW via \in Interfaces, NEW message \in Seq(Entry)
  PROVE  LET given == Given(via, message) IN
         /\ given = IF via = "js" THEN Raw(message) ELSE message
         /\ given \in Seq(Entry)
         /\ message_to_js(given) = message_to_js(message)
         /\ Unkinded(given) = Unkinded(message)
         /\ message # << >> => given # << >>
<1> DEFINE n == Len(message)
           raw == Raw(message)
<1>1. /\ n \in Nat /\ DOMAIN message = 1 .. n
      /\ \A i \in 1 .. n : /\ message[i] \in Entry /\ message[i].key \in Contents
                           /\ message[i].value \in Contents
  <2>1. n \in Nat /\ DOMAIN message = 1 .. n /\ \A i \in 1 .. n : message[i] \in Entry
    OBVIOUS
  <2>2. QED
    BY <2>1 DEF Entry
<1>2. message \in Seq(Wide)
  <2>1. Entry \subseteq Wide
    BY DEF Entry, Wide, Fields
  <2>2. QED
    BY <2>1
<1> HIDE DEF n
<1>3. /\ raw = [i \in 1 .. n |-> [key |-> message[i].key, value |-> message[i].value,
                                  kind |-> "RawData"]]
      /\ DOMAIN raw = 1 .. n
      /\ \A i \in 1 .. n : raw[i].key = message[i].key /\ raw[i].value = message[i].value
  BY <1>1 DEF Raw
<1> HIDE DEF raw
<1>4. raw \in Seq(Entry)
  <2>1. \A i \in 1 .. n :
          [key |-> message[i].key, value |-> message[i].value, kind |-> "RawData"] \in Entry
    BY <1>1 DEF Entry, Kinds
  <2>2. QED
    BY <1>1, <1>3, <2>1
<1>5. Unkinded(raw) = Unkinded(message)
  BY <1>1, <1>3 DEF Unkinded
<1>6. message_to_js(raw) = message_to_js(message) /\ Raw(message) = message_from_js(message_to_js(message))
  BY <1>2, RawResult DEF raw
<1>7. message # << >> => raw # << >>
  <2>1. message # << >> => 1 \in 1 .. n
    BY <1>1 DEF n
  <2>2. 1 \in DOMAIN raw => raw # << >>
    OBVIOUS
  <2>3. QED
    BY <1>3, <2>1, <2>2
<1>8. Given(via, message) = IF via = "js" THEN raw ELSE message
  BY <1>6 DEF Given, raw
<1>9. QED
  BY <1>4, <1>5, <1>6, <1>7, <1>8 DEF raw

\* What a caller of an interface has of a message of the crate.
Shown(via, message) == IF via = "js" THEN Raw(message) ELSE message

\* A call with keys and a nonce of their lengths is the call of the crate on
\* what the interface makes of the message, and its result comes back the same
\* way.  Without a nonce of its length it is an error, but for Rust.
LEMMA OnMessageResult ==
  ASSUME NEW via \in Interfaces, NEW action, NEW message \in Seq(Wide), NEW nonce,
         NEW pk \in KeyPairs, NEW sk \in KeyPairs
  PROVE  LET done == Act(action, Shown(via, message), nonce, pk, sk)
             result == OnMessage(via, action, message, nonce, pk, sk)
         IN /\ nonce \in Nonces /\ done = Failed => result = Failed
            /\ nonce \in Nonces /\ done \in Seq(Wide) => result = Shown(via, done)
            /\ nonce \notin Nonces => result \in {done, Failed, Trap}
            /\ nonce \notin Nonces /\ via # "rust" => result \in {Failed, Trap}
<1> DEFINE done == Act(action, Shown(via, message), nonce, pk, sk)
           result == OnMessage(via, action, message, nonce, pk, sk)
<1>1. KeySized(pk) /\ KeySized(sk) /\ (NonceSized(nonce) <=> nonce \in Nonces)
  BY DEF KeySized, NonceSized
<1>2. done \in Seq(Wide) =>
        /\ AsRawData(message_to_js(done)) = Raw(done)
        /\ done \notin {Failed, Trap} /\ message_to_js(done) \notin {Failed, Trap}
  <2> HIDE DEF done
  <2>1. QED
    BY RawResult
<1>3. CASE via = "rust"
  <2>1. Shown(via, message) = message /\ Shown(via, done) = done
    BY <1>3 DEF Shown
  <2>2. result = Act(action, message, nonce, pk, sk)
    BY <1>3 DEF OnMessage
  <2>3. QED
    BY <1>3, <2>1, <2>2
<1>4. CASE via = "c"
  <2> DEFINE reply == COnMessage(action, message, nonce, pk, sk)
  <2>1. Shown(via, message) = message /\ Shown(via, done) = done
    BY <1>4 DEF Shown
  <2>2. reply = CMessage(IF nonce \in Nonces THEN done ELSE Failed)
    BY <1>1, <2>1 DEF COnMessage
  <2>3. result = IF reply.error THEN Failed ELSE reply.message
    BY <1>4 DEF OnMessage
  <2> HIDE DEF done, reply, result
  <2>4. \A m : /\ CMessage(m).error <=> m = Failed
               /\ m # Failed => CMessage(m).message = m
    BY DEF CMessage
  <2>5. result = IF nonce \in Nonces THEN done ELSE Failed
    BY <2>2, <2>3, <2>4
  <2>6. QED
    BY <1>4, <2>1, <2>5 DEF done, result
<1>5. CASE via = "js"
  <2> DEFINE reply == JsOnMessage(action, message_to_js(message), nonce, pk, sk)
  <2>1. Shown(via, message) = message_from_js(message_to_js(message))
        /\ Shown(via, done) = Raw(done)
    BY <1>5, RawResult DEF Shown
  <2>2. /\ nonce \notin Nonces => reply = Trap
        /\ nonce \in Nonces => reply = IF done = Failed THEN Failed ELSE message_to_js(done)
    BY <1>1, <2>1 DEF JsOnMessage
  <2>3. result = IF reply \in {Failed, Trap} THEN reply ELSE AsRawData(reply)
    BY <1>5 DEF OnMessage
  <2> HIDE DEF done, reply, result
  <2>4. QED
    BY <1>2, <2>1, <2>2, <2>3 DEF done, result
<1>6. QED
  BY <1>3, <1>4, <1>5 DEF Interfaces

LEMMA EntriesAreWide == Seq(Entry) \subseteq Seq(Wide)
<1>1. Entry \subseteq Wide
  BY DEF Entry, Wide, Fields
<1>2. QED
  BY <1>1

\* on_message with MessageAction::Encrypt: every interface makes the data of
\* the message that it was given.
LEMMA EncryptVia ==
  ASSUME NEW via \in Interfaces, NEW message \in Seq(Entry), NEW nonce \in Nonces,
         NEW pk \in KeyPairs, NEW sk \in KeyPairs
  PROVE  OnMessage(via, "Encrypt", message, nonce, pk, sk) =
           EncryptMessage(Given(via, message), nonce, pk, sk)
<1> DEFINE given == Given(via, message)
           data == EncryptMessage(given, nonce, pk, sk)
<1>1. given = Shown(via, message) /\ given \in Seq(Entry)
  BY GivenResult DEF Shown
<1>2. Act("Encrypt", given, nonce, pk, sk) = data
  BY DEF Act
<1>3. Shown(via, given) = given
  BY <1>1, RawResult, EntriesAreWide DEF Shown
<1> HIDE DEF given
<1>4. data \in Seq(Wide) /\ Raw(data) = EncryptMessage(Raw(given), nonce, pk, sk)
  BY <1>1, RawEncrypted
<1>5. Shown(via, data) = data
  BY <1>3, <1>4 DEF Shown
<1> HIDE DEF data
<1>6. OnMessage(via, "Encrypt", message, nonce, pk, sk) = Shown(via, data)
  BY <1>1, <1>2, <1>4, OnMessageResult, EntriesAreWide
<1>7. QED
  BY <1>5, <1>6 DEF data, given

\* on_message with MessageAction::Decrypt: the nonce and the pair of keys give
\* the message through every interface, and others an error, if there is an
\* entry that fails to open.
LEMMA DecryptVia ==
  ASSUME NEW via \in Interfaces, NEW message \in Seq(Entry), NEW own \in Nonces,
         NEW to \in KeyPairs, NEW sender \in KeyPairs, NEW nonce,
         NEW peer \in KeyPairs, NEW user \in KeyPairs
  PROVE  LET data == EncryptMessage(message, own, to, sender)
             fits == own = nonce /\ SamePair(to, sender, peer, user)
             result == OnMessage(via, "Decrypt", data, nonce, peer, user)
         IN /\ fits => result = Given(via, message)
            /\ ~fits /\ message # << >> => result \in {Failed, Trap}
<1> DEFINE data == EncryptMessage(message, own, to, sender)
           given == Given(via, message)
           box == EncryptMessage(given, own, to, sender)
           fits == own = nonce /\ SamePair(to, sender, peer, user)
           done == DecryptMessage(box, nonce, peer, user)
           result == OnMessage(via, "Decrypt", data, nonce, peer, user)
<1>1. /\ given = Shown(via, message) /\ given \in Seq(Entry) /\ given \in Seq(Wide)
      /\ message # << >> => given # << >>
  BY GivenResult, EntriesAreWide DEF Shown
<1>2. Shown(via, given) = given
  BY <1>1, RawResult, EntriesAreWide DEF Shown
<1>3. data \in Seq(Wide) /\ Shown(via, data) = box
  BY <1>1, RawEncrypted DEF Shown
<1>4. Act("Decrypt", box, nonce, peer, user) = done
  BY DEF Act
<1> HIDE DEF given, data, box
<1>5. /\ nonce \in Nonces /\ done = Failed => result = Failed
      /\ nonce \in Nonces /\ done \in Seq(Wide) => result = Shown(via, done)
      /\ nonce \notin Nonces => result \in {done, Failed, Trap}
  <2> HIDE DEF done
  <2>1. QED
    BY <1>3, <1>4, OnMessageResult
<1>6. ASSUME fits PROVE result = given
  <2>1. done = given
    <3>1. nonce = own /\ SamePair(to, sender, peer, user) /\ given \in Seq(Entry)
      BY <1>1, <1>6
    <3> HIDE DEF fits, result
    <3>2. DecryptMessage(EncryptMessage(given, own, to, sender), own, peer, user) = given
      BY <3>1, DecryptMessageOpens
    <3>3. QED
      BY <3>1, <3>2 DEF box
  <2>2. nonce \in Nonces
    BY <1>6
  <2> HIDE DEF done, result
  <2>3. QED
    BY <1>1, <1>2, <1>5, <2>1, <2>2
<1>7. ASSUME ~fits, message # << >> PROVE result \in {Failed, Trap}
  <2>1. done = Failed
    <3>1. given \in Seq(Entry) /\ given # << >>
      BY <1>1, <1>7
    <3>2. ~(own = nonce /\ SamePair(to, sender, peer, user))
      BY <1>7
    <3> HIDE DEF fits, result
    <3>3. DecryptMessage(EncryptMessage(given, own, to, sender), nonce, peer, user) = Failed
      BY <3>1, <3>2, DecryptMessageFails
    <3>4. QED
      BY <3>3 DEF box
  <2> HIDE DEF done, result
  <2>2. QED
    BY <1>5, <2>1
<1> HIDE DEF result, fits
<1>8. QED
  BY <1>6, <1>7 DEF result, fits, given, data

-----------------------------------------------------------------------------
(* Metadata through the interfaces *)

\* The metadata of one sender (new_encrypted, whoever calls it).
Made(sender, recipients, message) ==
  new_encrypted(sender, PublicNonce, sender, recipients, message, Broker, DrawnNonce)

\* Every interface makes the same of the same message: the kinds that are lost
\* in JavaScript are not in the hash.
LEMMA NewMetadataVia ==
  ASSUME NEW via \in Interfaces, NEW sender \in Users, NEW recipients \in RecipientLists,
         NEW message \in Messages
  PROVE  NewMetadata(via, sender, recipients, message) = Made(sender, recipients, message)
<1> DEFINE given == Given(via, message)
           new(m) == new_encrypted(sender, PublicNonce, sender, recipients, m,
                                   Broker, DrawnNonce)
           root(m) == compute_root_hash(sender, PublicNonce, sender, Broker, DrawnNonce,
                                        recipients, m)
           md == new(message)
<1>1. md # Failed
  BY InterfacesAssumption, ResultAssumption
<1>2. given \in Seq(Entry) /\ message \in Seq(Entry) /\ Unkinded(given) = Unkinded(message)
  BY MessagesAssumption, GivenResult DEF Entry
<1> HIDE DEF given
<1>3. root(given) = root(message)
  BY <1>2, RootHashTells
<1>4. new(given) = md
  <2> HIDE DEF root
  <2>1. \A m : new(m) = [nonce |-> PublicNonce, broker |-> Broker, hash |-> root(m),
                         channels |-> new(message).channels]
    BY DEF new_encrypted, root
  <2> HIDE DEF new
  <2>2. QED
    BY <1>3, <2>1
<1>5. metadata_to_js_map(md) = md
  BY DEF metadata_to_js_map, new_encrypted
<1>6. NewMetadata(via, sender, recipients, message) =
        CASE via = "rust" -> new(given)
          [] via = "c"    -> CMetadata(new(given)).metadata
          [] via = "js"   -> metadata_to_js_map(new(given))
  BY DEF NewMetadata, given
<1> HIDE DEF new, md
<1>7. CMetadata(md).metadata = md
  BY <1>1 DEF CMetadata
<1>8. md = Made(sender, recipients, message)
  BY DEF md, new, Made
<1>9. QED
  BY <1>4, <1>5, <1>6, <1>7, <1>8 DEF Interfaces

LEMMA MadeResult ==
  ASSUME NEW sender \in Users, NEW recipients \in RecipientLists, NEW message \in Messages
  PROVE  LET md == Made(sender, recipients, message) IN
         /\ IsNew(md, Users, sender, recipients, DrawnNonce)
         /\ md.nonce = PublicNonce /\ md.broker = Broker
         /\ md.hash = compute_root_hash(sender, PublicNonce, sender, Broker, DrawnNonce,
                                        recipients, message)
         /\ md = [nonce |-> md.nonce, broker |-> md.broker, hash |-> md.hash,
                  channels |-> md.channels]
<1>1. recipients \in Seq(Users)
  BY RecipientType
<1>2. /\ Broker \in KeyPairs \ Users /\ PublicNonce \in Nonces /\ DrawnNonce \in Nonces
      /\ Users \subseteq KeyPairs
  BY InterfacesAssumption, UsersAssumption
<1>3. QED
  BY <1>1, <1>2 DEF Made, new_encrypted, IsNew

\* A record of the fields of metadata is the Map of JavaScript, and the other
\* way round when its key, its nonce and its hash have their lengths.
LEMMA MapResult ==
  ASSUME NEW nonce, NEW broker, NEW hash, NEW channels
  PROVE  LET md == [nonce |-> nonce, broker |-> broker, hash |-> hash, channels |-> channels]
         IN /\ metadata_to_js_map(md) = md
            /\ nonce \in Nonces /\ broker \in KeyPairs /\ hash \notin Nonces =>
                 js_map_to_metadata(md) = md
BY DEF metadata_to_js_map, js_map_to_metadata, NonceSized, KeySized, HashSized

\* decrypt, through any interface.
LEMMA OpenMetadataVia ==
  ASSUME NEW via \in Interfaces, NEW sender \in Users, NEW recipients \in RecipientLists,
         NEW message \in Messages, NEW user \in Users
  PROVE  LET md == Made(sender, recipients, message) IN
         OpenMetadata(via, md, user) = decrypt(md, user)
<1> DEFINE md == Made(sender, recipients, message)
           channels == OpenChannels(md, user)
           opened == [md EXCEPT !.channels = channels]
           map == [nonce |-> md.nonce, broker |-> md.broker, hash |-> md.hash,
                   channels |-> channels]
<1>1. /\ IsNew(md, Users, sender, recipients, DrawnNonce)
      /\ md = [nonce |-> md.nonce, broker |-> md.broker, hash |-> md.hash,
               channels |-> md.channels]
  BY MadeResult
<1>2. md # Failed /\ opened # Failed
  BY InterfacesAssumption, ResultAssumption DEF Made
<1>3. user \in KeyPairs /\ md.nonce \in Nonces /\ md.broker \in KeyPairs
  BY <1>1, UsersAssumption DEF IsNew
<1>4. md.hash \notin Nonces
  BY MadeResult, HashAssumption
<1> HIDE DEF md, channels
<1>5. decrypt(md, user) = opened
  BY <1>1, DecryptResult DEF channels
<1>6. opened = map
  BY <1>1
<1> HIDE DEF opened, map
<1>7. metadata_to_js_map(md) = md /\ js_map_to_metadata(md) = md
  BY <1>1, <1>3, <1>4, MapResult
<1>8. metadata_to_js_map(opened) = opened
  BY <1>6, MapResult DEF map
<1>9. CASE via = "rust"
  BY <1>9 DEF OpenMetadata, md
<1>10. CASE via = "c"
  <2> DEFINE reply == CDecryptMetadata(md, user)
  <2>1. reply = CMetadata(opened)
    BY <1>3, <1>5 DEF CDecryptMetadata, KeySized
  <2>2. ~reply.error /\ reply.metadata = opened
    BY <1>2, <2>1 DEF CMetadata, opened
  <2>3. OpenMetadata(via, md, user) = IF reply.error THEN Failed ELSE reply.metadata
    BY <1>10 DEF OpenMetadata
  <2> HIDE DEF reply
  <2>4. QED
    BY <1>5, <2>2, <2>3 DEF md
<1>11. CASE via = "js"
  <2>1. JsDecryptMetadata(md, user) = opened
    BY <1>2, <1>3, <1>5, <1>7, <1>8 DEF JsDecryptMetadata, KeySized, opened
  <2>2. OpenMetadata(via, md, user) = JsDecryptMetadata(md, user)
    BY <1>7, <1>11 DEF OpenMetadata
  <2>3. QED
    BY <1>5, <2>1, <2>2 DEF md
<1>12. QED
  BY <1>9, <1>10, <1>11 DEF Interfaces

-----------------------------------------------------------------------------
(* The inductive invariant of NolikInterfaces *)

\* What is published is what Rust would publish for the message that the
\* sender's interface makes of its own.
PostedInv ==
  posted # Nothing =>
    /\ posted.via \in Interfaces /\ posted.sender \in Users
    /\ posted.recipients \in RecipientLists /\ posted.to \in Range(posted.recipients)
    /\ posted.message \in Messages
    /\ posted.metadata = Made(posted.sender, posted.recipients, posted.message)
    /\ posted.data = EncryptMessage(Given(posted.via, posted.message), DrawnNonce,
                                    posted.to, posted.sender)

\* A reader sees what Rust would show.
SeenInv ==
  seen # Nothing =>
    /\ posted # Nothing
    /\ seen.via \in Interfaces /\ seen.user \in Users
    /\ seen.metadata = decrypt(posted.metadata, seen.user)

\* And it gets what its interface makes of the message, or an error.
GotInv ==
  got # Nothing =>
    /\ seen # Nothing
    /\ RightPair /\ got.nonce = DrawnNonce =>
         got.result = Given(seen.via, Given(posted.via, posted.message))
    /\ ~(RightPair /\ got.nonce = DrawnNonce) /\ posted.message # << >> =>
         got.result \in {Failed, Trap}

LEMMA PublishStep ==
  ASSUME PostedInv, SeenInv, GotInv, NEW via \in Interfaces, NEW sender \in Users,
         PublishVia(via, sender)
  PROVE  PostedInv' /\ SeenInv' /\ GotInv'
<1>1. posted = Nothing /\ seen' = seen /\ got' = got
  BY DEF PublishVia
<1>2. PICK recipients \in RecipientLists, message \in Messages :
        \E to \in Range(recipients) :
          posted' = [via |-> via, sender |-> sender, to |-> to, message |-> message,
                     recipients |-> recipients,
                     metadata |-> NewMetadata(via, sender, recipients, message),
                     data |-> OnMessage(via, "Encrypt", message, DrawnNonce, to, sender)]
  BY DEF PublishVia
<1>3. PICK to \in Range(recipients) :
        posted' = [via |-> via, sender |-> sender, to |-> to, message |-> message,
                   recipients |-> recipients,
                   metadata |-> NewMetadata(via, sender, recipients, message),
                   data |-> OnMessage(via, "Encrypt", message, DrawnNonce, to, sender)]
  BY <1>2
<1> DEFINE metadata == NewMetadata(via, sender, recipients, message)
           data == OnMessage(via, "Encrypt", message, DrawnNonce, to, sender)
<1>4. metadata = Made(sender, recipients, message)
  BY NewMetadataVia
<1>5. data = EncryptMessage(Given(via, message), DrawnNonce, to, sender)
  <2>1. message \in Seq(Entry) /\ to \in KeyPairs /\ sender \in KeyPairs
        /\ DrawnNonce \in Nonces
    BY RecipientType, MessagesAssumption, UsersAssumption, InterfacesAssumption DEF Entry
  <2>2. QED
    BY <2>1, EncryptVia
<1>6. /\ posted'.via = via /\ posted'.sender = sender /\ posted'.to = to
      /\ posted'.message = message /\ posted'.recipients = recipients
      /\ posted'.metadata = metadata /\ posted'.data = data
  <2> HIDE DEF metadata, data
  <2>1. QED
    BY <1>3 DEF metadata, data
<1> HIDE DEF metadata, data
<1>7. PostedInv'
  BY <1>4, <1>5, <1>6 DEF PostedInv
<1>8. seen = Nothing /\ got = Nothing
  BY <1>1 DEF SeenInv, GotInv
<1>9. QED
  BY <1>1, <1>7, <1>8 DEF SeenInv, GotInv

LEMMA OpenStep ==
  ASSUME PostedInv, SeenInv, GotInv, NEW via \in Interfaces, NEW user \in Users,
         OpenVia(via, user)
  PROVE  PostedInv' /\ SeenInv' /\ GotInv'
<1>1. posted # Nothing /\ seen = Nothing /\ posted' = posted /\ got' = got
  BY DEF OpenVia
<1> DEFINE metadata == OpenMetadata(via, posted.metadata, user)
<1>2. metadata = decrypt(posted.metadata, user)
  <2> DEFINE sender == posted.sender
             recipients == posted.recipients
             message == posted.message
             md == Made(sender, recipients, message)
  <2>1. /\ sender \in Users /\ recipients \in RecipientLists /\ message \in Messages
        /\ posted.metadata = md
    BY <1>1 DEF PostedInv
  <2> HIDE DEF sender, recipients, message
  <2>2. OpenMetadata(via, md, user) = decrypt(md, user)
    BY <2>1, OpenMetadataVia
  <2>3. QED
    BY <2>1, <2>2
<1> HIDE DEF metadata
<1>3. seen'.via = via /\ seen'.user = user /\ seen'.metadata = metadata
  BY DEF OpenVia, metadata
<1>4. got = Nothing
  BY <1>1 DEF GotInv
<1>5. QED
  BY <1>1, <1>2, <1>3, <1>4 DEF PostedInv, SeenInv, GotInv

LEMMA ReadViaStep ==
  ASSUME PostedInv, SeenInv, GotInv, NEW peer \in Users, ReadVia(peer)
  PROVE  PostedInv' /\ SeenInv' /\ GotInv'
<1>1. seen # Nothing /\ posted # Nothing /\ posted' = posted /\ seen' = seen
  BY DEF ReadVia, SeenInv
<1>2. PICK nonce : got' = [nonce |-> nonce, peer |-> peer,
                           result |-> OnMessage(seen.via, "Decrypt", posted.data,
                                                nonce, peer, seen.user)]
  BY DEF ReadVia
<1> DEFINE via == seen.via
           user == seen.user
           to == posted.to
           sender == posted.sender
           given == Given(posted.via, posted.message)
           data == EncryptMessage(given, DrawnNonce, to, sender)
           result == OnMessage(via, "Decrypt", data, nonce, peer, user)
           fits == DrawnNonce = nonce /\ SamePair(to, sender, peer, user)
<1>3. /\ via \in Interfaces /\ user \in Users /\ sender \in Users
      /\ to \in Users /\ posted.data = data /\ posted.message \in Seq(Entry)
      /\ posted.via \in Interfaces
  BY <1>1, RecipientType, MessagesAssumption DEF PostedInv, SeenInv, Entry
<1>4. given \in Seq(Entry) /\ (posted.message # << >> => given # << >>)
  BY <1>3, GivenResult
<1>5. DrawnNonce \in Nonces /\ Users \subseteq KeyPairs
  BY InterfacesAssumption, UsersAssumption
<1>6. got'.nonce = nonce /\ got'.peer = peer /\ got'.result = result
  <2> HIDE DEF data, result
  <2>1. QED
    BY <1>2, <1>3 DEF result
<1> HIDE DEF given, via, user, to, sender
<1>7. /\ fits => result = Given(via, given)
      /\ ~fits /\ given # << >> => result \in {Failed, Trap}
  BY <1>3, <1>4, <1>5, DecryptVia
<1> HIDE DEF data, result
<1>8. (RightPair /\ got.nonce = DrawnNonce)' <=> fits
  BY <1>1, <1>6 DEF RightPair, SamePair, user, sender, to
<1> HIDE DEF fits
<1>9. GotInv'
  BY <1>1, <1>4, <1>6, <1>7, <1>8 DEF GotInv, via, given
<1>10. QED
  BY <1>1, <1>9 DEF PostedInv, SeenInv

\* Through whatever interfaces they go, metadata and data are the ones of the
\* crate.
THEOREM InterfacesInvariant == InterfacesSpec => [](PostedInv /\ SeenInv /\ GotInv)
<1>1. InterfacesInit => PostedInv /\ SeenInv /\ GotInv
  BY DEF InterfacesInit, PostedInv, SeenInv, GotInv
<1>2. PostedInv /\ SeenInv /\ GotInv /\ [InterfacesNext]_interfaces_vars
        => (PostedInv /\ SeenInv /\ GotInv)'
  <2> SUFFICES ASSUME PostedInv, SeenInv, GotInv, [InterfacesNext]_interfaces_vars
               PROVE  PostedInv' /\ SeenInv' /\ GotInv'
    OBVIOUS
  <2>1. CASE UNCHANGED interfaces_vars
    BY <2>1 DEF interfaces_vars, PostedInv, SeenInv, GotInv, RightPair
  <2>2. ASSUME NEW via \in Interfaces, NEW user \in Users, PublishVia(via, user)
        PROVE  PostedInv' /\ SeenInv' /\ GotInv'
    BY <2>2, PublishStep
  <2>3. ASSUME NEW via \in Interfaces, NEW user \in Users, OpenVia(via, user)
        PROVE  PostedInv' /\ SeenInv' /\ GotInv'
    BY <2>3, OpenStep
  <2>4. ASSUME NEW peer \in Users, ReadVia(peer) PROVE PostedInv' /\ SeenInv' /\ GotInv'
    BY <2>4, ReadViaStep
  <2>5. QED
    BY <2>1, <2>2, <2>3, <2>4 DEF InterfacesNext
<1>3. QED
  BY <1>1, <1>2, PTL DEF InterfacesSpec

-----------------------------------------------------------------------------
(* The properties of NolikInterfaces *)

LEMMA PartyIsNamed ==
  ASSUME NEW keys, NEW sender \in keys, NEW recipients \in Seq(keys), NEW user
  PROVE  user \in Range(Parties(sender, recipients)) <=> user \in Range(recipients) \cup {sender}
<1> DEFINE parties == Parties(sender, recipients)
           n == Len(recipients)
<1>1. /\ n \in Nat /\ DOMAIN recipients = 1 .. n /\ DOMAIN parties = 1 .. n + 1
      /\ parties[1] = sender /\ \A i \in 1 .. n : parties[i + 1] = recipients[i]
  BY DEF Parties
<1> HIDE DEF parties, n
<1>2. \A p \in 1 .. n + 1 : p = 1 \/ (p - 1 \in 1 .. n /\ (p - 1) + 1 = p)
  BY <1>1
<1>3. 1 \in 1 .. n + 1 /\ \A i \in 1 .. n : i + 1 \in 1 .. n + 1
  BY <1>1
<1>4. \A p \in 1 .. n + 1 : p = 1 \/ parties[p] = recipients[p - 1]
  BY <1>1, <1>2
<1>5. user \in Range(parties) => user \in Range(recipients) \cup {sender}
  <2> SUFFICES ASSUME NEW p \in 1 .. n + 1, user = parties[p]
               PROVE  user \in Range(recipients) \cup {sender}
    BY <1>1 DEF Range
  <2>1. QED
    BY <1>1, <1>2, <1>4 DEF Range
<1>6. user \in Range(recipients) \cup {sender} => user \in Range(parties)
  <2>1. CASE user = sender
    BY <1>1, <1>3, <2>1 DEF Range
  <2>2. ASSUME NEW i \in 1 .. n, user = recipients[i] PROVE user \in Range(parties)
    BY <1>1, <1>3, <2>2 DEF Range
  <2>3. QED
    BY <1>1, <2>1, <2>2 DEF Range
<1>7. QED
  BY <1>5, <1>6 DEF parties

\* MessageMetadata::decrypt through Rust, C and JavaScript: whoever made the
\* metadata, a party sees the secret nonce and the parties, and nobody else
\* sees a channel.
THEOREM InterfacesOpenAlike == InterfacesSpec => []MetadataOpenAlike
<1>1. ASSUME PostedInv, SeenInv PROVE MetadataOpenAlike
  <2> SUFFICES ASSUME seen # Nothing
               PROVE  /\ seen.metadata = decrypt(posted.metadata, seen.user)
                      /\ Party(seen.user) =>
                           seen.metadata.channels[1] =
                             [nonce |-> DrawnNonce,
                              parties |-> Parties(posted.sender, posted.recipients)]
                      /\ ~Party(seen.user) => seen.metadata.channels = << >>
    BY DEF MetadataOpenAlike
  <2> DEFINE sender == posted.sender
             recipients == posted.recipients
             message == posted.message
             user == seen.user
             md == Made(sender, recipients, message)
             channels == OpenChannels(md, user)
             opened == [md EXCEPT !.channels = channels]
  <2>1. /\ sender \in Users /\ recipients \in RecipientLists /\ message \in Messages
        /\ posted.metadata = md /\ user \in Users
        /\ seen.metadata = decrypt(md, user)
    BY <1>1 DEF PostedInv, SeenInv
  <2>2. Party(user) <=> user \in Range(recipients) \cup {sender}
    <3>1. recipients \in Seq(Users)
      BY <2>1, RecipientType
    <3> HIDE DEF sender, recipients, user
    <3>2. user \in Range(Parties(sender, recipients))
            <=> user \in Range(recipients) \cup {sender}
      BY <2>1, <3>1, PartyIsNamed
    <3>3. QED
      BY <3>2 DEF Party, sender, recipients
  <2>3. Channel(sender, recipients, DrawnNonce) =
          [nonce |-> DrawnNonce, parties |-> Parties(posted.sender, posted.recipients)]
    BY DEF Channel
  <2> HIDE DEF sender, recipients, message, user
  <2>4. IsNew(md, Users, sender, recipients, DrawnNonce)
    BY <2>1, MadeResult
  <2> HIDE DEF md
  <2>5. /\ decrypt(md, user) = opened /\ opened.channels = channels
        /\ user \in Range(recipients) \cup {sender} =>
             channels[1] = Channel(sender, recipients, DrawnNonce)
        /\ user \notin Range(recipients) \cup {sender} => channels = << >>
    BY <2>1, <2>4, DecryptResult
  <2> HIDE DEF opened, channels
  <2>6. QED
    BY <2>1, <2>2, <2>3, <2>5 DEF user
<1>2. QED
  BY <1>1, InterfacesInvariant, PTL

\* on_message through every interface: with another nonce or another peer the
\* reader has an error, and no interface makes a message of it.
THEOREM InterfacesReportErrors == InterfacesSpec => []NoFalseMessage
<1>1. GotInv => NoFalseMessage
  BY DEF GotInv, NoFalseMessage
<1>2. QED
  BY <1>1, InterfacesInvariant, PTL

\* on_message through every interface: with the nonce of its channel and the
\* right peer the reader has the entries that were sent, raw data if JavaScript
\* is on the way, and their hash is the one in the metadata.
THEOREM InterfacesKeepEntries == InterfacesSpec => []EntriesSurvive
<1>1. ASSUME PostedInv, SeenInv, GotInv PROVE EntriesSurvive
  <2> SUFFICES ASSUME got # Nothing, RightPair, got.nonce = DrawnNonce
               PROVE  /\ got.result \notin {Failed, Trap}
                      /\ Kindless(got.result) = Kindless(posted.message)
                      /\ "js" \notin {posted.via, seen.via} => got.result = posted.message
                      /\ "js" \in {posted.via, seen.via} =>
                           \A e \in DOMAIN got.result : got.result[e].kind = "RawData"
                      /\ posted.metadata.hash =
                           compute_root_hash(posted.sender, posted.metadata.nonce, posted.sender,
                                             posted.metadata.broker, DrawnNonce,
                                             posted.recipients, got.result)
    BY DEF EntriesSurvive
  <2> DEFINE sender == posted.sender
             recipients == posted.recipients
             message == posted.message
             given == Given(posted.via, message)
             result == got.result
             md == posted.metadata
             root(m) == compute_root_hash(sender, PublicNonce, sender, Broker, DrawnNonce,
                                          recipients, m)
  <2>1. /\ posted.via \in Interfaces /\ seen.via \in Interfaces
        /\ sender \in Users /\ recipients \in RecipientLists /\ message \in Messages
        /\ md = Made(sender, recipients, message)
        /\ result = Given(seen.via, given)
    BY <1>1 DEF PostedInv, SeenInv, GotInv
  <2> HIDE DEF sender, recipients, message, result, md
  <2>2. message \in Seq(Entry)
    BY <2>1, MessagesAssumption DEF Entry
  <2>3. /\ given = IF posted.via = "js" THEN Raw(message) ELSE message
        /\ given \in Seq(Entry)
        /\ message_to_js(given) = message_to_js(message)
        /\ Unkinded(given) = Unkinded(message)
    BY <2>1, <2>2, GivenResult
  <2> HIDE DEF given
  <2>4. /\ result = IF seen.via = "js" THEN Raw(given) ELSE given
        /\ result \in Seq(Entry)
        /\ message_to_js(result) = message_to_js(given)
        /\ Unkinded(result) = Unkinded(given)
    BY <2>1, <2>3, GivenResult
  <2>5. result \notin {Failed, Trap}
    BY <2>4, RawResult, EntriesAreWide
  <2>6. ASSUME NEW m PROVE \A e \in DOMAIN Raw(m) : Raw(m)[e].kind = "RawData"
    BY DEF Raw
  <2>7. md.nonce = PublicNonce /\ md.broker = Broker /\ md.hash = root(message)
    BY <2>1, MadeResult
  <2>8. root(message) = root(result)
    BY <2>2, <2>3, <2>4, RootHashTells
  <2>9. /\ "js" \notin {posted.via, seen.via} => result = message
        /\ "js" \in {posted.via, seen.via} => \A e \in DOMAIN result : result[e].kind = "RawData"
    BY <2>3, <2>4, <2>6
  <2> HIDE DEF root
  <2>10. md.hash = root(result)
    BY <2>7, <2>8
  <2>11. QED
    BY <2>3, <2>4, <2>5, <2>7, <2>9, <2>10
       DEF Kindless, root, sender, recipients, message, result, md
<1>2. QED
  BY <1>1, InterfacesInvariant, PTL

=============================================================================
