-------------------------- MODULE PackageExchange --------------------------
(***************************************************************************)
(* One coordinate (name and version) of an HTTP package repository, seen   *)
(* by `package publish` and `package install` of the command line          *)
(* (crates/mercurio-sysml-cli/src/main.rs). The server keeps two files, the*)
(* package and its manifest, and each is read and written by a request of  *)
(* its own: a publisher probes the manifest, PUTs the package, PUTs the    *)
(* manifest; an installer GETs the manifest, then the package.             *)
(*                                                                         *)
(* A client may be killed or lose a request anywhere, and start again. A   *)
(* PUT whose answer did not come may still reach the server later, or      *)
(* never. The local repository of a publisher may be staged anew at any    *)
(* time. What a manifest says of its package is the digest; its file name  *)
(* is the same for every publisher of the coordinate.                      *)
(***************************************************************************)
EXTENDS Naturals, FiniteSets

CONSTANTS
    Publisher, Installer,
    Forced,         \* the clients run with --force
    Content,        \* the bytes a package may have
    Digest,         \* stable_file_digest
    Nothing         \* no file, nothing read

Client == Publisher \cup Installer
Digests == {Digest[c] : c \in Content}

ASSUME ExchangeAssumption ==
    /\ Publisher \cap Installer = {}
    /\ Forced \subseteq Client
    /\ DOMAIN Digest = Content
    /\ Nothing \notin Content /\ Nothing \notin Digests

VARIABLES
    remotePackage, remoteManifest,  \* the files of the server
    local,          \* the package in a publisher's repository
    installed,      \* the package in an installer's repository
    phase,          \* where a client is
    manifest,       \* the digest in the manifest a client has read
    bytes,          \* the package a client has read
    late,           \* the PUTs given up that may yet arrive
    uploaded, announced     \* history: all that the two files have held

server == <<remotePackage, remoteManifest, uploaded, announced>>
repositories == <<local, installed>>
clients == <<phase, manifest, bytes>>
vars == <<server, repositories, clients, late>>

Active == {"probe", "read", "put", "announce", "fetch", "download", "stage"}
Ended == {"idle", "refused", "failed", "mismatch", "published", "installed"}

Init ==
    /\ remotePackage = Nothing /\ remoteManifest = Nothing
    /\ local \in [Publisher -> Content \cup {Nothing}]
    /\ installed = [i \in Installer |-> Nothing]
    /\ phase = [c \in Client |-> "idle"]
    /\ manifest = [c \in Client |-> Nothing]
    /\ bytes = [c \in Client |-> Nothing]
    /\ late = {} /\ uploaded = {} /\ announced = {}

\* A client goes on with what it has read so far, or ends and forgets it.
Goto(c, next, digest, content) ==
    /\ phase' = [phase EXCEPT ![c] = next]
    /\ manifest' = [manifest EXCEPT ![c] = digest]
    /\ bytes' = [bytes EXCEPT ![c] = content]

End(c, outcome) == Goto(c, outcome, Nothing, Nothing)

-----------------------------------------------------------------------------
(* The server: a PUT replaces the file. *)

StorePackage(content) ==
    /\ remotePackage' = content
    /\ uploaded' = uploaded \cup {content}
    /\ UNCHANGED <<remoteManifest, announced>>

StoreManifest(digest) ==
    /\ remoteManifest' = digest
    /\ announced' = announced \cup {digest}
    /\ UNCHANGED <<remotePackage, uploaded>>

\* A request that was given up arrives after all.
Arrive ==
    \E put \in late :
        /\ late' = late \ {put}
        /\ \/ put.what = "package" /\ StorePackage(put.value)
           \/ put.what = "manifest" /\ StoreManifest(put.value)
        /\ UNCHANGED <<repositories, clients>>

-----------------------------------------------------------------------------
(* publish_to_http_package_repository *)

\* The local manifest is read now, the package only after the probe.
Publish(p) ==
    /\ phase[p] \in Ended
    /\ IF local[p] = Nothing
       THEN End(p, "failed")
       ELSE Goto(p, IF p \in Forced THEN "read" ELSE "probe", Digest[local[p]], Nothing)
    /\ UNCHANGED <<server, repositories, late>>

Probe(p) ==
    /\ phase[p] = "probe"
    /\ IF remoteManifest # Nothing
       THEN End(p, "refused")
       ELSE Goto(p, "read", manifest[p], Nothing)
    /\ UNCHANGED <<server, repositories, late>>

\* Seeded fault: the digest of the package is not compared with the manifest.
ReadUnchecked(p) ==
    /\ phase[p] = "read"
    /\ Goto(p, "put", manifest[p], local[p])
    /\ UNCHANGED <<server, repositories, late>>

Read(p) ==
    /\ phase[p] = "read"
    /\ IF Digest[local[p]] = manifest[p]
       THEN Goto(p, "put", manifest[p], local[p])
       ELSE End(p, "failed")
    /\ UNCHANGED <<server, repositories, late>>

\* Seeded fault: a package that could not be uploaded is announced all the same.
PutPackageRegardless(p) ==
    /\ phase[p] = "put"
    /\ Goto(p, "announce", manifest[p], bytes[p])
    /\ \/ StorePackage(bytes[p]) /\ UNCHANGED late
       \/ /\ late' = late \cup {[what |-> "package", value |-> bytes[p]]}
          /\ UNCHANGED server
    /\ UNCHANGED repositories

\* A request is answered, or given up: then the client ends.
PutPackage(p) ==
    /\ phase[p] = "put"
    /\ \/ /\ StorePackage(bytes[p]) /\ UNCHANGED late
          /\ Goto(p, "announce", manifest[p], bytes[p])
       \/ /\ late' = late \cup {[what |-> "package", value |-> bytes[p]]}
          /\ End(p, "failed") /\ UNCHANGED server
    /\ UNCHANGED repositories

PutManifest(p) ==
    /\ phase[p] = "announce"
    /\ \/ /\ StoreManifest(manifest[p]) /\ UNCHANGED late
          /\ End(p, "published")
       \/ /\ late' = late \cup {[what |-> "manifest", value |-> manifest[p]]}
          /\ End(p, "failed") /\ UNCHANGED server
    /\ UNCHANGED repositories

-----------------------------------------------------------------------------
(* install_from_http_package_repository *)

Install(i) ==
    /\ phase[i] \in Ended
    /\ IF i \notin Forced /\ installed[i] # Nothing
       THEN End(i, "refused")
       ELSE Goto(i, "fetch", Nothing, Nothing)
    /\ UNCHANGED <<server, repositories, late>>

Fetch(i) ==
    /\ phase[i] = "fetch"
    /\ IF remoteManifest = Nothing
       THEN End(i, "failed")
       ELSE Goto(i, "download", remoteManifest, Nothing)
    /\ UNCHANGED <<server, repositories, late>>

\* Seeded fault: whatever arrives is staged.
DownloadUnchecked(i) ==
    /\ phase[i] = "download"
    /\ IF remotePackage = Nothing THEN End(i, "failed")
       ELSE Goto(i, "stage", manifest[i], remotePackage)
    /\ UNCHANGED <<server, repositories, late>>

Download(i) ==
    /\ phase[i] = "download"
    /\ IF remotePackage = Nothing THEN End(i, "failed")
       ELSE IF Digest[remotePackage] # manifest[i] THEN End(i, "mismatch")
       ELSE Goto(i, "stage", manifest[i], remotePackage)
    /\ UNCHANGED <<server, repositories, late>>

Stage(i) ==
    /\ phase[i] = "stage"
    /\ installed' = [installed EXCEPT ![i] = bytes[i]]
    /\ End(i, "installed")
    /\ UNCHANGED <<server, local, late>>

-----------------------------------------------------------------------------
\* stage_kpar of a publisher's own repository (package build): external.
Restage(p) ==
    /\ \E content \in Content : local' = [local EXCEPT ![p] = content]
    /\ UNCHANGED <<server, installed, clients, late>>

\* The process is killed, or a GET fails.
Fail(c) ==
    /\ phase[c] \in Active
    /\ End(c, "failed")
    /\ UNCHANGED <<server, repositories, late>>

Next ==
    \/ Arrive
    \/ \E p \in Publisher :
          Publish(p) \/ Probe(p) \/ Read(p) \/ PutPackage(p) \/ PutManifest(p) \/ Restage(p)
    \/ \E i \in Installer : Install(i) \/ Fetch(i) \/ Download(i) \/ Stage(i)
    \/ \E c \in Client : Fail(c)

Spec == Init /\ [][Next]_vars

-----------------------------------------------------------------------------
TypeOK ==
    /\ remotePackage \in Content \cup {Nothing}
    /\ remoteManifest \in Digests \cup {Nothing}
    /\ local \in [Publisher -> Content \cup {Nothing}]
    /\ installed \in [Installer -> Content \cup {Nothing}]
    /\ phase \in [Client -> Active \cup Ended]
    /\ manifest \in [Client -> Digests \cup {Nothing}]
    /\ bytes \in [Client -> Content \cup {Nothing}]
    /\ \A c \in Client : phase[c] \in Ended => manifest[c] = Nothing /\ bytes[c] = Nothing
    /\ late \subseteq [what : {"package"}, value : Content]
                  \cup [what : {"manifest"}, value : Digests]
    /\ uploaded \subseteq Content /\ announced \subseteq Digests

DigestsOf(contents) == {Digest[c] : c \in contents}

\* The manifest is the last thing a publication leaves: while it is on the
\* server a package is too, and the package it describes was uploaded before
\* it, whatever publishers die, are repeated or are answered late.
ManifestFollowsPackage ==
    /\ remoteManifest # Nothing => remotePackage # Nothing
    /\ announced \subseteq DigestsOf(uploaded)

\* An installed package is one that a publisher uploaded and that a manifest
\* of the repository described.
InstalledIsAnnounced ==
    \A i \in Installer : installed[i] # Nothing =>
        installed[i] \in uploaded /\ Digest[installed[i]] \in announced

\* The only way to the "remote package digest mismatch" of an installer is
\* that two different packages were uploaded under the coordinate.
MismatchMeansTwoPackages ==
    \A i \in Installer : phase[i] = "mismatch" => \E c, d \in uploaded : c # d

\* "already exists at {base_url}; use --force to overwrite": without --force
\* a published manifest is never replaced.
OnlyForceOverwrites ==
    [][remoteManifest # Nothing /\ Forced = {} => remoteManifest' = remoteManifest]_vars
=============================================================================
