----------------------- MODULE PackageExchangeProofs -----------------------
(***************************************************************************)
(* What the package repository holds, for any number of publishers,        *)
(* installers and packages, and any digest function: a client moves on its *)
(* own, or a file of the server is replaced, or a repository of a client   *)
(* is; each of the three keeps the invariant.                              *)
(***************************************************************************)
EXTENDS PackageExchange, TLAPS

\* What a publisher is about to send was checked, or was sent before.
PublisherIsSound(p) ==
    /\ phase[p] \in {"probe", "read"} => local[p] # Nothing
    /\ phase[p] = "put" => bytes[p] # Nothing /\ Digest[bytes[p]] = manifest[p]
    /\ phase[p] = "announce" => manifest[p] \in DigestsOf(uploaded)

\* What an installer holds it got from the server.
InstallerIsSound(i) ==
    /\ phase[i] = "download" => manifest[i] \in announced
    /\ phase[i] = "stage" => bytes[i] \in uploaded /\ Digest[bytes[i]] \in announced
    /\ phase[i] = "mismatch" => \E c, d \in uploaded : c # d

ClientsAreSound ==
    /\ \A p \in Publisher : PublisherIsSound(p)
    /\ \A i \in Installer : InstallerIsSound(i)

\* The server holds the last of what it held, and no manifest overtakes its
\* package, late or not.
ServerIsSound ==
    /\ uploaded # {} => remotePackage # Nothing
    /\ remotePackage # Nothing => remotePackage \in uploaded
    /\ remoteManifest # Nothing => remoteManifest \in announced
    /\ announced \subseteq DigestsOf(uploaded)
    /\ \A put \in late : put.what = "manifest" => put.value \in DigestsOf(uploaded)

IInv == TypeOK /\ ClientsAreSound /\ ServerIsSound /\ InstalledIsAnnounced

LEMMA InitInv == Init => IInv
<1>. SUFFICES ASSUME Init PROVE IInv
  OBVIOUS
<1>1. TypeOK
  BY DEF Init, TypeOK, Active, Ended
<1>2. ClientsAreSound
  BY DEF Init, ClientsAreSound, PublisherIsSound, InstallerIsSound, Client
<1>3. ServerIsSound /\ InstalledIsAnnounced
  BY DEF Init, ServerIsSound, InstalledIsAnnounced
<1>. QED
  BY <1>1, <1>2, <1>3 DEF IInv

-----------------------------------------------------------------------------
\* A client moves on its own: nothing else changes but the requests it gives
\* up.
LEMMA ClientMoves ==
    ASSUME IInv,
           NEW c \in Client, NEW next \in Active \cup Ended,
           NEW digest \in Digests \cup {Nothing}, NEW content \in Content \cup {Nothing},
           Goto(c, next, digest, content),
           UNCHANGED <<server, repositories>>,
           next \in Ended => digest = Nothing /\ content = Nothing,
           c \in Publisher => PublisherIsSound(c)',
           c \in Installer => InstallerIsSound(c)',
           late' \subseteq [what : {"package"}, value : Content]
                      \cup [what : {"manifest"}, value : Digests],
           \A put \in late' : put.what = "manifest" => put.value \in DigestsOf(uploaded)
    PROVE  IInv'
<1>. USE DEF IInv, server, repositories
<1>1. TypeOK'
  BY DEF TypeOK, Goto
<1>2. ClientsAreSound'
  <2>1. ASSUME NEW d \in Client, d # c
        PROVE  phase'[d] = phase[d] /\ manifest'[d] = manifest[d] /\ bytes'[d] = bytes[d]
    BY <2>1 DEF Goto, TypeOK
  <2>2. ASSUME NEW p \in Publisher
        PROVE  PublisherIsSound(p)'
    BY <2>1 DEF ClientsAreSound, PublisherIsSound, Client, DigestsOf
  <2>3. ASSUME NEW i \in Installer
        PROVE  InstallerIsSound(i)'
    BY <2>1 DEF ClientsAreSound, InstallerIsSound, Client
  <2>. QED
    BY <2>2, <2>3 DEF ClientsAreSound
<1>3. ServerIsSound'
  BY DEF ServerIsSound, DigestsOf
<1>4. InstalledIsAnnounced'
  BY DEF InstalledIsAnnounced
<1>. QED
  BY <1>1, <1>2, <1>3, <1>4

\* A client that ends holds nothing: only a mismatch is to be justified.
LEMMA ClientEnds ==
    ASSUME IInv, NEW c \in Client, NEW outcome \in Ended, outcome # "mismatch",
           End(c, outcome), UNCHANGED <<server, repositories>>,
           late' \subseteq [what : {"package"}, value : Content]
                      \cup [what : {"manifest"}, value : Digests],
           \A put \in late' : put.what = "manifest" => put.value \in DigestsOf(uploaded)
    PROVE  IInv'
<1>1. Goto(c, outcome, Nothing, Nothing)
  BY DEF End
<1>2. phase'[c] = outcome
  BY <1>1 DEF Goto, IInv, TypeOK
<1>3. PublisherIsSound(c)' /\ InstallerIsSound(c)'
  BY <1>2 DEF Ended, PublisherIsSound, InstallerIsSound
<1>. QED
  BY <1>1, <1>3, ClientMoves

\* The requests given up so far are harmless.
LEMMA LateKept ==
    ASSUME IInv, UNCHANGED late
    PROVE  /\ late' \subseteq [what : {"package"}, value : Content]
                          \cup [what : {"manifest"}, value : Digests]
           /\ \A put \in late' : put.what = "manifest" => put.value \in DigestsOf(uploaded)
  BY DEF IInv, TypeOK, ServerIsSound

\* The steps of a client between two requests that change the server.
LEMMA ClientSteps ==
    ASSUME IInv,
           \/ \E p \in Publisher : Publish(p) \/ Probe(p) \/ Read(p)
           \/ \E i \in Installer : Install(i) \/ Fetch(i) \/ Download(i)
           \/ \E c \in Client : Fail(c)
    PROVE  IInv'
<1>. USE ExchangeAssumption DEF Client
<1>1. ASSUME NEW c \in Client, NEW outcome \in Ended, outcome # "mismatch",
             End(c, outcome), UNCHANGED <<server, repositories, late>>
      PROVE  IInv'
  BY <1>1, LateKept, ClientEnds DEF repositories
<1>2. ASSUME NEW c \in Client, NEW next \in Active,
             NEW digest \in Digests \cup {Nothing}, NEW content \in Content \cup {Nothing},
             Goto(c, next, digest, content),
             UNCHANGED <<server, repositories, late>>,
             c \in Publisher => PublisherIsSound(c)', c \in Installer => InstallerIsSound(c)'
      PROVE  IInv'
  <2>1. next \notin Ended
    BY DEF Active, Ended
  <2>. QED
    BY <1>2, <2>1, LateKept, ClientMoves
<1>3. ASSUME NEW c \in Client, NEW next, NEW digest, NEW content, Goto(c, next, digest, content)
      PROVE  phase'[c] = next /\ manifest'[c] = digest /\ bytes'[c] = content
  BY <1>3 DEF Goto, IInv, TypeOK
<1>4. ASSUME NEW p \in Publisher, Publish(p)
      PROVE  IInv'
  <2>1. CASE local[p] = Nothing
    BY <1>1, <1>4, <2>1 DEF Publish, Ended
  <2>2. CASE local[p] # Nothing
    <3>1. PICK next \in {"read", "probe"} : Goto(p, next, Digest[local[p]], Nothing)
      BY <1>4, <2>2 DEF Publish
    <3>2. Digest[local[p]] \in Digests
      BY <2>2 DEF IInv, TypeOK, Digests
    <3>3. PublisherIsSound(p)'
      BY <1>3, <1>4, <2>2, <3>1 DEF PublisherIsSound, Publish, repositories
    <3>. QED
      BY <1>2, <1>4, <3>1, <3>2, <3>3 DEF Publish, Active
  <2>. QED
    BY <2>1, <2>2
<1>5. ASSUME NEW p \in Publisher, Probe(p)
      PROVE  IInv'
  <2>1. CASE remoteManifest # Nothing
    BY <1>1, <1>5, <2>1 DEF Probe, Ended
  <2>2. CASE remoteManifest = Nothing
    <3>1. Goto(p, "read", manifest[p], Nothing)
      BY <1>5, <2>2 DEF Probe
    <3>2. PublisherIsSound(p)'
      BY <1>3, <1>5, <3>1 DEF PublisherIsSound, Probe, repositories, IInv, ClientsAreSound
    <3>. QED
      BY <1>2, <1>5, <3>1, <3>2 DEF Probe, Active, IInv, TypeOK
  <2>. QED
    BY <2>1, <2>2
<1>6. ASSUME NEW p \in Publisher, Read(p)
      PROVE  IInv'
  <2>1. CASE Digest[local[p]] # manifest[p]
    BY <1>1, <1>6, <2>1 DEF Read, Ended
  <2>2. CASE Digest[local[p]] = manifest[p]
    <3>1. Goto(p, "put", manifest[p], local[p])
      BY <1>6, <2>2 DEF Read
    <3>2. local[p] # Nothing
      BY <1>6 DEF Read, IInv, ClientsAreSound, PublisherIsSound
    <3>3. PublisherIsSound(p)'
      BY <1>3, <2>2, <3>1, <3>2 DEF PublisherIsSound
    <3>. QED
      BY <1>2, <1>6, <3>1, <3>3 DEF Read, Active, IInv, TypeOK
  <2>. QED
    BY <2>1, <2>2
<1>7. ASSUME NEW i \in Installer, Install(i)
      PROVE  IInv'
  <2>1. CASE i \notin Forced /\ installed[i] # Nothing
    BY <1>1, <1>7, <2>1 DEF Install, Ended
  <2>2. CASE ~(i \notin Forced /\ installed[i] # Nothing)
    <3>1. Goto(i, "fetch", Nothing, Nothing)
      BY <1>7, <2>2 DEF Install
    <3>2. InstallerIsSound(i)'
      BY <1>3, <3>1 DEF InstallerIsSound
    <3>. QED
      BY <1>2, <1>7, <3>1, <3>2 DEF Install, Active
  <2>. QED
    BY <2>1, <2>2
<1>8. ASSUME NEW i \in Installer, Fetch(i)
      PROVE  IInv'
  <2>1. CASE remoteManifest = Nothing
    BY <1>1, <1>8, <2>1 DEF Fetch, Ended
  <2>2. CASE remoteManifest # Nothing
    <3>1. Goto(i, "download", remoteManifest, Nothing)
      BY <1>8, <2>2 DEF Fetch
    <3>2. InstallerIsSound(i)'
      BY <1>3, <1>8, <2>2, <3>1 DEF InstallerIsSound, Fetch, server, IInv, ServerIsSound
    <3>. QED
      BY <1>2, <1>8, <3>1, <3>2 DEF Fetch, Active, IInv, TypeOK
  <2>. QED
    BY <2>1, <2>2
<1>9. ASSUME NEW i \in Installer, Download(i)
      PROVE  IInv'
  <2>1. CASE remotePackage = Nothing
    BY <1>1, <1>9, <2>1 DEF Download, Ended
  <2>2. CASE remotePackage # Nothing /\ Digest[remotePackage] # manifest[i]
    <3>1. Goto(i, "mismatch", Nothing, Nothing)
      BY <1>9, <2>2 DEF Download, End
    <3>2. remotePackage \in uploaded /\ manifest[i] \in DigestsOf(uploaded)
      BY <1>9, <2>2 DEF Download, IInv, ServerIsSound, ClientsAreSound, InstallerIsSound
    <3>3. \E c, d \in uploaded : c # d
      BY <2>2, <3>2 DEF DigestsOf
    <3>4. InstallerIsSound(i)'
      BY <1>3, <1>9, <3>1, <3>3 DEF InstallerIsSound, Download, server
    <3>. QED
      BY <1>9, <3>1, <3>4, LateKept, ClientMoves DEF Download, Ended
  <2>3. CASE remotePackage # Nothing /\ Digest[remotePackage] = manifest[i]
    <3>1. Goto(i, "stage", manifest[i], remotePackage)
      BY <1>9, <2>3 DEF Download
    <3>2. InstallerIsSound(i)'
      BY <1>3, <1>9, <2>3, <3>1
      DEF InstallerIsSound, Download, server, IInv, ServerIsSound, ClientsAreSound
    <3>. QED
      BY <1>2, <1>9, <3>1, <3>2 DEF Download, Active, IInv, TypeOK
  <2>. QED
    BY <2>1, <2>2, <2>3
<1>10. ASSUME NEW c \in Client, Fail(c)
       PROVE  IInv'
  BY <1>1, <1>10 DEF Fail, Ended
<1>. QED
  BY <1>4, <1>5, <1>6, <1>7, <1>8, <1>9, <1>10

-----------------------------------------------------------------------------
\* Storing a file only adds to what the server has held: every client but the
\* one that sent it is as sound as before.
LEMMA ServerGrows ==
    ASSUME IInv, TypeOK', ServerIsSound',
           uploaded \subseteq uploaded', announced \subseteq announced',
           UNCHANGED repositories,
           \A p \in Publisher :
              \/ PublisherIsSound(p)'
              \/ phase'[p] = phase[p] /\ manifest'[p] = manifest[p] /\ bytes'[p] = bytes[p],
           \A i \in Installer :
              phase'[i] = phase[i] /\ manifest'[i] = manifest[i] /\ bytes'[i] = bytes[i]
    PROVE  IInv'
<1>. USE DEF IInv, repositories
<1>1. DigestsOf(uploaded) \subseteq DigestsOf(uploaded')
  BY DEF DigestsOf
<1>2. ASSUME NEW p \in Publisher
      PROVE  PublisherIsSound(p)'
  BY <1>1 DEF ClientsAreSound, PublisherIsSound
<1>3. ASSUME NEW i \in Installer
      PROVE  InstallerIsSound(i)'
  BY DEF ClientsAreSound, InstallerIsSound
<1>4. InstalledIsAnnounced'
  BY DEF InstalledIsAnnounced
<1>. QED
  BY <1>2, <1>3, <1>4 DEF ClientsAreSound

LEMMA PackageStored ==
    ASSUME IInv, NEW content \in Content, StorePackage(content), late' \subseteq late
    PROVE  /\ ServerIsSound'
           /\ uploaded \subseteq uploaded' /\ announced \subseteq announced'
           /\ content \in uploaded'
<1>. USE DEF IInv, ServerIsSound, StorePackage
<1>1. DigestsOf(uploaded) \subseteq DigestsOf(uploaded')
  BY DEF DigestsOf
<1>2. content # Nothing
  BY ExchangeAssumption
<1>. QED
  BY <1>1, <1>2

LEMMA ManifestStored ==
    ASSUME IInv, NEW digest \in DigestsOf(uploaded), StoreManifest(digest), late' \subseteq late
    PROVE  /\ ServerIsSound'
           /\ uploaded \subseteq uploaded' /\ announced \subseteq announced'
  BY DEF IInv, ServerIsSound, StoreManifest, DigestsOf

LEMMA RequestSteps ==
    ASSUME IInv, NEW p \in Publisher, PutPackage(p) \/ PutManifest(p)
    PROVE  IInv'
<1>. USE ExchangeAssumption DEF Client
<1>1. ASSUME NEW q \in Client, q # p
      PROVE  phase'[q] = phase[q] /\ manifest'[q] = manifest[q] /\ bytes'[q] = bytes[q]
  BY <1>1 DEF PutPackage, PutManifest, End, Goto, IInv, TypeOK
<1>2. ASSUME NEW next, NEW digest, NEW content, Goto(p, next, digest, content)
      PROVE  phase'[p] = next /\ manifest'[p] = digest /\ bytes'[p] = content
  BY <1>2 DEF Goto, IInv, TypeOK
<1>3. phase[p] = "put" => bytes[p] \in Content /\ Digest[bytes[p]] = manifest[p]
  BY DEF IInv, TypeOK, ClientsAreSound, PublisherIsSound
<1>4. phase[p] = "announce" => manifest[p] \in DigestsOf(uploaded)
  BY DEF IInv, ClientsAreSound, PublisherIsSound
<1>5. DigestsOf(uploaded) \subseteq Digests
  BY DEF DigestsOf, Digests, IInv, TypeOK
<1>6. CASE phase[p] = "put" /\ StorePackage(bytes[p]) /\ UNCHANGED <<late, repositories>>
           /\ Goto(p, "announce", manifest[p], bytes[p])
  <2>1. ServerIsSound' /\ uploaded \subseteq uploaded' /\ announced \subseteq announced'
        /\ bytes[p] \in uploaded'
    BY <1>3, <1>6, PackageStored
  <2>2. PublisherIsSound(p)'
    BY <1>2, <1>3, <1>6, <2>1 DEF PublisherIsSound, DigestsOf
  <2>3. TypeOK'
    BY <1>3, <1>6 DEF IInv, TypeOK, StorePackage, Goto, Active, Ended, repositories
  <2>. QED
    BY <1>1, <1>6, <2>1, <2>2, <2>3, ServerGrows
<1>7. CASE phase[p] = "announce" /\ StoreManifest(manifest[p]) /\ UNCHANGED <<late, repositories>>
           /\ End(p, "published")
  <2>1. ServerIsSound' /\ uploaded \subseteq uploaded' /\ announced \subseteq announced'
    BY <1>4, <1>7, ManifestStored
  <2>2. PublisherIsSound(p)'
    BY <1>2, <1>7 DEF PublisherIsSound, End
  <2>3. TypeOK'
    BY <1>4, <1>5, <1>7 DEF IInv, TypeOK, StoreManifest, End, Goto, Active, Ended, repositories
  <2>. QED
    BY <1>1, <1>7, <2>1, <2>2, <2>3, ServerGrows
<1>8. ASSUME NEW put \in [what : {"package"}, value : Content]
                        \cup [what : {"manifest"}, value : DigestsOf(uploaded)],
             late' = late \cup {put}, End(p, "failed"), UNCHANGED <<server, repositories>>
      PROVE  IInv'
  <2>1. /\ late' \subseteq [what : {"package"}, value : Content]
                       \cup [what : {"manifest"}, value : Digests]
        /\ \A r \in late' : r.what = "manifest" => r.value \in DigestsOf(uploaded)
    BY <1>5, <1>8 DEF IInv, TypeOK, ServerIsSound
  <2>2. "failed" \in Ended
    BY DEF Ended
  <2>. QED
    BY <1>8, <2>1, <2>2, ClientEnds
<1>. QED
  BY <1>3, <1>4, <1>6, <1>7, <1>8 DEF PutPackage, PutManifest

LEMMA LateStep ==
    ASSUME IInv, Arrive
    PROVE  IInv'
<1>1. PICK put \in late :
          /\ late' = late \ {put}
          /\ \/ put.what = "package" /\ StorePackage(put.value)
             \/ put.what = "manifest" /\ StoreManifest(put.value)
          /\ UNCHANGED <<repositories, clients>>
  BY DEF Arrive
<1>. USE DEF IInv
<1>2. /\ put.what = "package" => put.value \in Content
      /\ put.what = "manifest" => put.value \in Digests /\ put.value \in DigestsOf(uploaded)
  BY DEF TypeOK, ServerIsSound
<1>3. ServerIsSound' /\ uploaded \subseteq uploaded' /\ announced \subseteq announced'
  BY <1>1, <1>2, PackageStored, ManifestStored
<1>4. TypeOK'
  BY <1>1, <1>2 DEF TypeOK, StorePackage, StoreManifest, repositories, clients
<1>. QED
  BY <1>1, <1>3, <1>4, ServerGrows DEF clients

\* What an installer stages it has downloaded, and is then described.
LEMMA StageStep ==
    ASSUME IInv, NEW i \in Installer, Stage(i)
    PROVE  IInv'
<1>. USE ExchangeAssumption DEF IInv, Stage, server, Client
<1>1. bytes[i] \in uploaded /\ Digest[bytes[i]] \in announced /\ bytes[i] \in Content
  BY DEF ClientsAreSound, InstallerIsSound, TypeOK
<1>2. TypeOK'
  BY <1>1 DEF TypeOK, End, Goto, Active, Ended
<1>3. ClientsAreSound'
  BY DEF ClientsAreSound, PublisherIsSound, InstallerIsSound, End, Goto, TypeOK, DigestsOf
<1>4. ServerIsSound'
  BY DEF ServerIsSound, DigestsOf
<1>5. InstalledIsAnnounced'
  BY <1>1 DEF InstalledIsAnnounced, TypeOK
<1>. QED
  BY <1>2, <1>3, <1>4, <1>5

LEMMA RestageStep ==
    ASSUME IInv, NEW p \in Publisher, Restage(p)
    PROVE  IInv'
<1>. USE ExchangeAssumption DEF IInv, Restage, server, clients
<1>1. TypeOK'
  BY DEF TypeOK
<1>2. ClientsAreSound'
  BY DEF ClientsAreSound, PublisherIsSound, InstallerIsSound, TypeOK, DigestsOf
<1>3. ServerIsSound' /\ InstalledIsAnnounced'
  BY DEF ServerIsSound, InstalledIsAnnounced, DigestsOf
<1>. QED
  BY <1>1, <1>2, <1>3

LEMMA Stutter ==
    ASSUME IInv, UNCHANGED vars
    PROVE  IInv'
  BY DEF vars, server, repositories, clients, IInv, TypeOK, ClientsAreSound, PublisherIsSound,
         InstallerIsSound, ServerIsSound, InstalledIsAnnounced, DigestsOf

THEOREM Invariance == Spec => []IInv
<1>1. IInv /\ [Next]_vars => IInv'
  BY ClientSteps, RequestSteps, LateStep, StageStep, RestageStep, Stutter DEF Next
<1>. QED
  BY InitInv, <1>1, PTL DEF Spec

\* The variables have their types.
THEOREM TypeCorrect == Spec => []TypeOK
  BY Invariance, PTL DEF IInv

\* For any number of publishers and installers, a manifest on the server
\* describes a package that was uploaded before it.
THEOREM ManifestsFollowPackages == Spec => []ManifestFollowsPackage
<1>1. IInv => ManifestFollowsPackage
  BY DEF IInv, ServerIsSound, ManifestFollowsPackage, DigestsOf
<1>. QED
  BY Invariance, <1>1, PTL

\* What is installed was uploaded and announced.
THEOREM InstalledAreAnnounced == Spec => []InstalledIsAnnounced
  BY Invariance, PTL DEF IInv

\* A digest mismatch takes two different packages.
THEOREM MismatchesMeanTwoPackages == Spec => []MismatchMeansTwoPackages
<1>1. IInv => MismatchMeansTwoPackages
  BY DEF IInv, ClientsAreSound, InstallerIsSound, MismatchMeansTwoPackages
<1>. QED
  BY Invariance, <1>1, PTL
=============================================================================
