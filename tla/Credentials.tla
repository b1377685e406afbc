----------------------------- MODULE Credentials ----------------------------
(***************************************************************************)
(* cmd/certgen, pkg/authfile and the loading half of cmd/interactive: the  *)
(* credential files, how certgen makes them, and what a node that starts   *)
(* from them trusts and presents.  Everything here is a function of the    *)
(* files.  A key pair is its public key, and that of a CA its hash; a      *)
(* signature is the identity of the key that made it (PeerVerify).         *)
(***************************************************************************)
EXTENDS PeerVerify, SequencesExt

(* The .oukey format.  anchorPub: the anchoring admin's public key.  An     *)
(* admin CA has no anchor.                                                  *)
CAKeyFile == [type : {"admin-ca", "user-ca"}, ca : CA, anchor : CA \cup {NoCA},
              anchorSig : CA \cup {NoCA}, anchorPub : CA \cup {NoCA}]

(* The .oucert format.  caPub: the issuer's public key at the top level.    *)
NodeCertFile == [cert : Cert, caSig : CA, caPub : CA, authorities : Seq(EmbeddedCA)]

-----------------------------------------------------------------------------
(* certgen *)

CmdAdminCA(h) ==
    [type |-> "admin-ca", ca |-> h, anchor |-> NoCA, anchorSig |-> NoCA, anchorPub |-> NoCA]

(* The file given as -admin-key must be an admin CA's. *)
CanAnchor(admin) == admin.type = "admin-ca"

CmdUserCA(admin, h) ==
    [type |-> "user-ca", ca |-> h, anchor |-> admin.ca, anchorSig |-> admin.ca,
     anchorPub |-> admin.ca]

(* The anchor fields of an admin authority are empty and nobody reads them. *)
Authority(type, h, anchor, sig) ==
    [type |-> type, ca |-> h, anchor |-> anchor, anchorSig |-> sig]

(* A user CA file without its anchor's public key (an older one) is an error. *)
HasTrustChain(f) == f.type = "user-ca" => f.anchorPub # NoCA

BuildEmbeddedTrustChain(f) ==
    IF f.type = "admin-ca" THEN <<Authority("admin-ca", f.ca, f.ca, NoCA)>>
    ELSE <<Authority("admin-ca", f.anchorPub, f.anchorPub, NoCA),
           Authority("user-ca", f.ca, f.anchor, f.anchorSig)>>

(* A new node key n, certified from now on for validity seconds. *)
CmdSignNode(f, n, now, validity) ==
    [cert |-> [node |-> n, issuer |-> f.ca, validFrom |-> now, validUntil |-> now + validity],
     caSig |-> f.ca, caPub |-> f.ca, authorities |-> BuildEmbeddedTrustChain(f)]

(* A .oucert of a version that did not embed authorities. *)
Legacy(certFile) == [certFile EXCEPT !.authorities = <<>>]

(* A user CA's .oukey of a version that did not keep the admin's public key. *)
LegacyUserCA(f) == [f EXCEPT !.anchorPub = NoCA]

(* The files are ones that certgen left behind: every CA has a key of its   *)
(* own, so that its hash names one file, and a user CA was anchored by an   *)
(* admin CA among them.                                                     *)
MadeByCertgen(files) ==
    /\ files \subseteq CAKeyFile
    /\ \A f, g \in files : f.ca = g.ca => f = g
    /\ \A f \in files : \/ f = CmdAdminCA(f.ca)
                         \/ \E g \in files : /\ CanAnchor(g)
                                             /\ f \in {CmdUserCA(g, f.ca), LegacyUserCA(CmdUserCA(g, f.ca))}

(* certFile is what certgen wrote for node n with one of the CA files. *)
SignedWith(files, n, certFile) ==
    \E f \in files :
        LET cert == certFile.cert
            signed == CmdSignNode(f, n, cert.validFrom, cert.validUntil - cert.validFrom)
        IN  \/ HasTrustChain(f) /\ certFile = signed
            \/ certFile = Legacy(signed)

-----------------------------------------------------------------------------
(* Loading: the trust store of a new process.  A load that meets an error   *)
(* returns it and the process ends; ok says that none was met.              *)

EmptyStore == [admins |-> {}, users |-> [h \in CA |-> NoCA],
               revAdmins |-> {}, revUsers |-> {}, revNodes |-> {}]

Load == [ok : BOOLEAN, store : TrustSnapshot]
NewLoad == [ok |-> TRUE, store |-> EmptyStore]

LoadFails(load) == [load EXCEPT !.ok = FALSE]

(* AddAdminPubKey on a store without revocations. *)
LoadAdmin(load, h) ==
    IF ~load.ok \/ h \in load.store.admins THEN LoadFails(load)
    ELSE [load EXCEPT !.store.admins = @ \cup {h}]

(* AddUserPubKey on a store without revocations. *)
LoadUser(load, h, anchor, sig) ==
    IF ~load.ok \/ IsUser(load.store, h) \/ anchor \notin load.store.admins \/ sig # anchor
    THEN LoadFails(load)
    ELSE [load EXCEPT !.store.users[h] = anchor]

(* Fault: the file is taken for what the flag says, not for what it is. *)
FaultyAddCAFile(load, f) == LoadAdmin(load, f.ca)

AddCAFile(load, f) ==
    IF f.type = "admin-ca" THEN LoadAdmin(load, f.ca)
    ELSE LoadUser(load, f.ca, f.anchor, f.anchorSig)

AddAuthority(load, a) ==
    IF a.type = "admin-ca" THEN LoadAdmin(load, a.ca)
    ELSE LoadUser(load, a.ca, a.anchor, a.anchorSig)

(* Without authorities the issuer is trusted as an admin CA, whatever it is. *)
EmbeddedAuthorities(certFile) ==
    IF certFile.authorities = <<>>
    THEN <<Authority("admin-ca", certFile.caPub, certFile.caPub, NoCA)>>
    ELSE certFile.authorities

(* One of AddEmbeddedTrust's loops, which passes over all other types. *)
AddAuthorities(load, auths, type) ==
    LET loaded[i \in 0..Len(auths)] ==
            IF i = 0 THEN load
            ELSE IF auths[i].type # type THEN loaded[i - 1]
            ELSE AddAuthority(loaded[i - 1], auths[i])
    IN  loaded[Len(auths)]

(* Admin CAs first, then the user CAs they anchor. *)
AddEmbeddedTrust(load, certFile) ==
    LET auths == EmbeddedAuthorities(certFile)
    IN  AddAuthorities(AddAuthorities(load, auths, "admin-ca"), auths, "user-ca")

(* A node's configuration: -node-cert, -admin-ca and -user-ca. *)
Config == [certFile : NodeCertFile, adminCAs : Seq(CAKeyFile), userCAs : Seq(CAKeyFile)]

(* The -admin-ca files and then the -user-ca files. *)
CAFiles(conf) == conf.adminCAs \o conf.userCAs

AddCAFiles(load, files) ==
    LET loaded[i \in 0..Len(files)] ==
            IF i = 0 THEN load ELSE AddCAFile(loaded[i - 1], files[i])
    IN  loaded[Len(files)]

LoadCarrierAuth(conf) ==
    IF conf.adminCAs = <<>> /\ conf.userCAs = <<>>
    THEN AddEmbeddedTrust(NewLoad, conf.certFile)
    ELSE AddCAFiles(NewLoad, CAFiles(conf))

(* What the node presents to its peers. *)
NodeCertToIdentity(certFile) ==
    [certs |-> <<certFile.cert>>, caSigs |-> <<certFile.caSig>>,
     authorities |-> certFile.authorities]

-----------------------------------------------------------------------------
(* CAS access control (internal/datacas/cas) for a peer's AuthContext. *)

NewAccessContext(ctx) == [scope |-> ctx.scope, owners |-> ctx.owners \ {NoCA}]

(* Fault: data without an owner is open to everyone. *)
FaultyCanAccessData(access, owner) ==
    access.scope = "admin" \/ owner = NoCA \/ owner \in access.owners

(* NoCA: data without an owner. *)
CanAccessData(access, owner) ==
    \/ access.scope = "admin"
    \/ access.scope = "user" /\ owner # NoCA /\ owner \in access.owners

-----------------------------------------------------------------------------
(* What the files say, without following the loading code. *)

(* The CAs that a configuration names as admins, and as users. *)
AdminsOf(conf) ==
    IF CAFiles(conf) # <<>>
    THEN {f.ca : f \in {g \in ToSet(CAFiles(conf)) : g.type = "admin-ca"}}
    ELSE IF conf.certFile.authorities = <<>> THEN {conf.certFile.cert.issuer}
    ELSE {conf.certFile.authorities[1].ca}

UsersOf(conf) ==
    IF CAFiles(conf) # <<>>
    THEN {f.ca : f \in {g \in ToSet(CAFiles(conf)) : g.type = "user-ca"}}
    ELSE IF Len(conf.certFile.authorities) = 2 THEN {conf.certFile.cert.issuer}
    ELSE {}

(* The list can be loaded: no CA twice, and every user CA after its anchor. *)
Loadable(conf) ==
    LET fs == CAFiles(conf) IN
    /\ \A i, j \in DOMAIN fs : i # j => fs[i].ca # fs[j].ca
    /\ \A i \in DOMAIN fs : fs[i].type = "user-ca" =>
          \E j \in 1..i - 1 : fs[j].type = "admin-ca" /\ fs[j].ca = fs[i].anchor
=============================================================================
