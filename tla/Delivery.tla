------------------------------ MODULE Delivery ------------------------------
(***************************************************************************)
(* The public delivery of originals and derivatives (routes/delivery.ts,   *)
(* delivery/): addresses by original, by canonical transformation and by   *)
(* preset; visibility and signed links; conditional requests and byte      *)
(* ranges, to clients that lose connections and come back for the rest.    *)
(*                                                                         *)
(* A restart brings another configuration: other signing keys, another     *)
(* image processor.  What stands behind a representation is the subject of *)
(* DerivativeStore and ImageDerivatives: here it is published once.        *)
(***************************************************************************)
EXTENDS Integers, FiniteSets, TransformGrammar

CONSTANTS Sources,       \* ready versions of assets
          SourceFormat,  \* [Sources -> ImageOutputFormats, or "none"]
          Clients,
          Names,         \* of presets
          Definitions,   \* the specifications that people write
          Accepts,       \* the headers Accept of the clients
          Processors,
          Size,          \* of what each processor makes, and "none" for an original
          KeyRings,      \* DELIVERY_SIGNING_KEYS, over the deployments
          Ttl, MaxTime, MaxPresets, MaxLinks

\* Bounds: MaxTime of the clock, MaxPresets of a preset's versions, MaxLinks of the
\* links alive at once.
ASSUME DeliveryAssumption ==
    /\ \A s \in Sources : SourceFormat[s] \in ImageOutputFormats \union {"none"}
    /\ \A ring \in KeyRings : ring # <<>>
    /\ \A p \in Processors \union {"none"} : Size[p] \in Nat \ {0}
    /\ "none" \notin Processors
    /\ Ttl \in Nat \ {0} /\ MaxTime \in Nat /\ MaxPresets \in Nat /\ MaxLinks \in Nat

VARIABLES visibility,    \* of each source
          presets,       \* transform_presets: of each name the specifications, by version
          keys,          \* of the running process, the signing one first
          processor,     \* of the running process
          finalized,     \* the representations that are stored, with their dates
          links,         \* signed URLs that somebody holds
          answering,     \* of each client the representation it waits for, if any
          download,      \* what each client has kept
          today

deliveryVars == <<visibility, presets, keys, processor, finalized, links, answering, download, today>>

-----------------------------------------------------------------------------
(* Addresses.                                                              *)

NoSpec == Canonical(Default)

Specifications == Definitions \union {Canonical(PlanOf(d)) : d \in Definitions}

\* Of each specification what is read, if it is.
ParseImageTransformV1 ==
    [d \in Specifications |->
       IF Readable(d) THEN {[plan |-> PlanOf(d), canonicalSpec |-> Canonical(PlanOf(d))]} ELSE {}]

Original(s) == [by |-> "original", source |-> s, spec |-> NoSpec, name |-> "none", version |-> 0]
ByPlan(s, spec) == [by |-> "spec", source |-> s, spec |-> spec, name |-> "none", version |-> 0]
ByPreset(s, n, v) == [by |-> "preset", source |-> s, spec |-> NoSpec, name |-> n, version |-> v]

Addresses ==
    {Original(s) : s \in Sources}
    \union {ByPlan(s, d) : s \in Sources, d \in Specifications}
    \union {ByPreset(s, n, v) : s \in Sources, n \in Names, v \in 1 .. MaxPresets}

\* The transformation of an address, if it has one; the original's is to do nothing.
ResolveTransform(a) ==
    CASE a.by = "original" -> {[plan |-> Default, canonicalSpec |-> NoSpec]}
      [] a.by = "spec" -> ParseImageTransformV1[a.spec]
      [] a.by = "preset" -> UNION {ParseImageTransformV1[presets[a.name][v]] :
                                     v \in {a.version} \intersect DOMAIN presets[a.name]}

\* Other specifications than canonical ones are not served.
Means(a) == {t \in ResolveTransform(a) : a.by = "spec" => a.spec = t.canonicalSpec}

\* The path that is signed, and for which a signature is compared.
Path(a, t) == IF a.by = "original" THEN a ELSE ByPlan(a.source, t.canonicalSpec)

NoLink == [path |-> NoSpec, expires |-> 0, kid |-> "none"]

Verifies(link) == link.expires > today /\ \E i \in DOMAIN keys : keys[i] = link.kid

\* With a signature, what the visibility says does not matter.
IsPubliclyAuthorized(a, link) ==
    IF link = NoLink THEN visibility[a.source] = "public" ELSE Verifies(link)

\* What identifies a derivative, its cache key, or an original.
Representation(a, t, accept) ==
    IF a.by = "original"
    THEN [source |-> a.source, spec |-> t.canonicalSpec, format |-> "none", processor |-> "none"]
    ELSE [source |-> a.source, spec |-> t.canonicalSpec, processor |-> processor,
          format |-> ResolveOutputFormat(t.plan["f"], SourceFormat[a.source], accept)]

\* 404 and 406 are the other answers: they write nothing, and are not cached.
Answers(a, link, accept) ==
    {r \in {Representation(a, t, accept) : t \in Means(a)} :
       /\ IsPubliclyAuthorized(a, link)
       /\ a.by # "original" => r.format # "none"}

-----------------------------------------------------------------------------
(* Representations and byte ranges.                                        *)

Octets(r) == 0 .. Size[r.processor] - 1
Stored(r) == \E f \in finalized : f.of = r
LastModified(r) == (CHOOSE f \in finalized : f.of = r).at

NoOctet == -1

\* A header Range, <<first, last>>, either of which may be missing; {} is 416.
ParseSingleByteRange(range, size) ==
    LET first == range[1]
        last == range[2]
        least(m, n) == IF m < n THEN m ELSE n
    IN  CASE first = NoOctet /\ last = NoOctet -> {}
          [] first = NoOctet /\ last # NoOctet ->
               IF last = 0 THEN {} ELSE size - least(last, size) .. size - 1
          [] first # NoOctet /\ last = NoOctet -> first .. size - 1
          [] OTHER -> first .. least(last, size - 1)

Headers(size) == (0 .. size \union {NoOctet}) \X (0 .. size \union {NoOctet})

-----------------------------------------------------------------------------
(* Clients.  octets: what a client has kept, of: what it believes to have, *)
(* by: the validator it keeps, dated: the header Last-Modified.            *)

NoRepresentation == [source |-> "none", spec |-> NoSpec, format |-> "none", processor |-> "none"]

NoDownload ==
    [address |-> NoSpec, accept |-> NoAccept, of |-> NoRepresentation, by |-> "etag", dated |-> 0,
     octets |-> {}]

Begun(c) == download[c].of # NoRepresentation
Whole(d) == {o[1] : o \in d.octets} = Octets(d.of)
Waiting(c) == answering[c] # NoRepresentation

DeliveryInit ==
    /\ visibility \in [Sources -> {"private", "public"}]
    /\ presets = [n \in Names |-> <<>>]
    /\ keys \in KeyRings
    /\ processor \in Processors
    /\ finalized = {[of |-> r, at |-> 0] :
         r \in {[source |-> s, spec |-> NoSpec, format |-> "none", processor |-> "none"] : s \in Sources}}
    /\ links = {}
    /\ answering = [c \in Clients |-> NoRepresentation]
    /\ download = [c \in Clients |-> NoDownload]
    /\ today = 0

\* Somebody who may read the asset asks for a link, whatever the spelling.
CreateSignedUrl(a) ==
    /\ Cardinality(links) < MaxLinks
    /\ \E t \in ResolveTransform(a) :
         links' = links \union
           {[path |-> Path(a, t), shows |-> t, expires |-> today + Ttl, kid |-> keys[1]]}
    /\ UNCHANGED <<visibility, presets, keys, processor, finalized, answering, download, today>>

LinkIsForgotten(l) ==
    /\ links' = links \ {l}
    /\ UNCHANGED <<visibility, presets, keys, processor, finalized, answering, download, today>>

UpdateVisibility(s, new) ==
    /\ visibility[s] # new
    /\ visibility' = [visibility EXCEPT ![s] = new]
    /\ UNCHANGED <<presets, keys, processor, finalized, links, answering, download, today>>

TheSpec(d) == (CHOOSE t \in ParseImageTransformV1[d] : TRUE).canonicalSpec

CreatePreset(n, d) ==
    /\ ParseImageTransformV1[d] # {}
    /\ presets[n] = <<>>
    /\ presets' = [presets EXCEPT ![n] = <<TheSpec(d)>>]
    /\ UNCHANGED <<visibility, keys, processor, finalized, links, answering, download, today>>

\* A definition that says what the latest version does is refused.
CreateVersion(n, d) ==
    LET latest == Len(presets[n])
        spec == TheSpec(d)
    IN  /\ ParseImageTransformV1[d] # {}
        /\ latest \in 1 .. MaxPresets - 1 /\ presets[n][latest] # spec
        /\ presets' = [presets EXCEPT ![n] = Append(@, spec)]
        /\ UNCHANGED <<visibility, keys, processor, finalized, links, answering, download, today>>

\* The client asks, for a new address or for what it misses of the one it has begun.
Request(c, a, link, accept) ==
    /\ ~Waiting(c)
    /\ Begun(c) => a = download[c].address /\ accept = download[c].accept
    /\ \E r \in Answers(a, link, accept) : answering' = [answering EXCEPT ![c] = r]
    /\ download' = [download EXCEPT ![c].address = a, ![c].accept = accept]
    /\ UNCHANGED <<visibility, presets, keys, processor, finalized, links, today>>

\* The derivative is generated, unless it is there.
Generate(c) ==
    /\ Waiting(c) /\ ~Stored(answering[c])
    /\ finalized' = finalized \union {[of |-> answering[c], at |-> today]}
    /\ UNCHANGED <<visibility, presets, keys, processor, links, answering, download, today>>

\* A 503, a 416, or the connection is lost.
Fails(c) ==
    /\ Waiting(c)
    /\ answering' = [answering EXCEPT ![c] = NoRepresentation]
    /\ UNCHANGED <<visibility, presets, keys, processor, finalized, links, download, today>>

Ready(c) == Waiting(c) /\ Stored(answering[c])

Kept(c, new) ==
    /\ download' = [download EXCEPT ![c] = new]
    /\ answering' = [answering EXCEPT ![c] = NoRepresentation]
    /\ UNCHANGED <<visibility, presets, keys, processor, finalized, links, today>>

\* A mutant: a range is a range.
RangeIsRange(d, r) == TRUE

\* An ETag has to be the same; a date only no earlier than the representation's.
IfRangeAllows(d, r) == IF d.by = "etag" THEN d.of = r ELSE LastModified(r) <= d.dated

\* If-None-Match, or If-Modified-Since: of a whole download the client asks for no more.
NotModified(c) ==
    LET d == download[c]
    IN  /\ Ready(c) /\ Begun(c)
        /\ Whole(d) /\ IfRangeAllows(d, answering[c])
        /\ Kept(c, d)

\* 206: the octets of the range, or the first of them.
PartialContent(c) ==
    LET r == answering[c]
        d == download[c]
        size == Size[r.processor]
    IN  /\ Ready(c) /\ Begun(c) /\ ~Whole(d)
        /\ IfRangeAllows(d, r)
        /\ \E range \in Headers(size) :
             LET asked == ParseSingleByteRange(range, size)
             IN  \E n \in asked :
                   Kept(c, [d EXCEPT !.octets = @ \union {<<o, r>> : o \in {m \in asked : m <= n}}])

\* 200: what the client had is replaced, whether it asked for a range or not.
EntireContent(c, by) ==
    LET r == answering[c]
        d == download[c]
    IN  /\ Ready(c)
        /\ Begun(c) /\ Whole(d) => ~IfRangeAllows(d, r)
        /\ \E n \in Octets(r) :
             Kept(c, [d EXCEPT !.of = r, !.by = by, !.dated = LastModified(r),
                               !.octets = {<<o, r>> : o \in 0 .. n}])

Forget(c) ==
    /\ ~Waiting(c) /\ download[c] # NoDownload
    /\ Kept(c, NoDownload)

Restart(ring, p) ==
    /\ <<ring, p>> # <<keys, processor>>
    /\ keys' = ring /\ processor' = p
    /\ answering' = [c \in Clients |-> NoRepresentation]
    /\ UNCHANGED <<visibility, presets, finalized, links, download, today>>

DayPasses ==
    /\ today < MaxTime
    /\ today' = today + 1
    /\ UNCHANGED <<visibility, presets, keys, processor, finalized, links, answering, download>>

DeliveryNext ==
    \/ \E a \in Addresses : CreateSignedUrl(a)
    \/ \E l \in links : LinkIsForgotten(l)
    \/ \E s \in Sources, new \in {"private", "public"} : UpdateVisibility(s, new)
    \/ \E n \in Names, d \in Definitions : CreatePreset(n, d) \/ CreateVersion(n, d)
    \/ \E c \in Clients :
         \/ \E accept \in Accepts : \/ \E a \in Addresses : Request(c, a, NoLink, accept)
                                   \/ \E l \in links : Request(c, l.path, l, accept)
         \/ Generate(c) \/ Fails(c)
         \/ NotModified(c)
         \/ PartialContent(c)
         \/ \E by \in {"etag", "date"} : EntireContent(c, by)
         \/ Forget(c)
    \/ \E ring \in KeyRings, p \in Processors : Restart(ring, p)
    \/ DayPasses

DeliverySpec == DeliveryInit /\ [][DeliveryNext]_deliveryVars

-----------------------------------------------------------------------------
(* Properties.                                                             *)

\* A link shows what its maker asked for, however he spelled it, until it expires or its
\* key is withdrawn; after that not even an address that has become public opens by it.
LinksWorkUntilTheyExpire ==
    \A l \in links :
      /\ Means(l.path) = {l.shows}
      /\ \A accept \in Accepts :
           LET r == Representation(l.path, l.shows, accept)
           IN  Answers(l.path, l, accept) # {} <=>
                 /\ l.expires > today /\ \E i \in DOMAIN keys : keys[i] = l.kid
                 /\ l.path.by = "original" \/ r.format # "none"

\* What a client puts together of ranges, over lost connections, upgrades and rollbacks
\* of the processor, is one representation, and of its address: if it keeps the ETag.
DownloadsAreWhole ==
    \A c \in Clients :
      Begun(c) /\ download[c].by = "etag" =>
        LET d == download[c]
        IN  /\ {o[2] : o \in d.octets} = {d.of}
            /\ {o[1] : o \in d.octets} \subseteq Octets(d.of)
            /\ {t.canonicalSpec : t \in Means(d.address)} = {d.of.spec}
            /\ d.of.source = d.address.source
=============================================================================
