----------------------------- MODULE MCDelivery -----------------------------
(* Two studies of Delivery, one in each half of the states: what addresses  *)
(* and links open, and what downloads are put together of.                  *)
EXTENDS Delivery

VARIABLE study

MCSourceFormat == [s \in Sources |-> "jpeg"]
MCSize == [p \in Processors \union {"none"} |-> IF p = "p1" THEN 3 ELSE 2]
MCKeyRings == {<<"k1">>, <<"k2", "k1">>, <<"k2">>}

Tidy(given) == [given |-> given, tidy |-> TRUE, repeated |-> FALSE]
Untidy(given) == [given |-> given, tidy |-> FALSE, repeated |-> FALSE]

\* One plan in two spellings, two more that are not canonical, and three refused.
MCDefinitions ==
    {Tidy([w |-> 64]), Untidy([w |-> 64]),
     Tidy([w |-> 64, h |-> 64, fit |-> "cover", f |-> "png"]),
     Tidy([f |-> "auto", q |-> 80]), Tidy([f |-> "png", q |-> 80]),
     Tidy([w |-> 8192, h |-> 8192]), [Tidy([w |-> 64]) EXCEPT !.repeated = TRUE]}

MCAccepts ==
    {NoAccept, Accept(<<>>),
     Accept(<<[range |-> "*/*", q |-> 500], [range |-> "image/*", q |-> 500],
              [range |-> "avif", q |-> 0]>>)}

MCInit == DeliveryInit /\ study \in {"links", "downloads"}

Thumbnail == {ByPlan(s, Tidy([w |-> 64])) : s \in Sources}

MCNext ==
    /\ DeliveryNext
    /\ study' = study
    /\ IF study = "links"
       THEN download' = download
       ELSE /\ presets' = presets /\ visibility' = visibility
            /\ {l.path : l \in links'} \union {d.address : d \in {download'[c] : c \in Clients}}
                  \subseteq Thumbnail \union {NoDownload.address}

MCSpec == MCInit /\ [][MCNext]_<<deliveryVars, study>>
=============================================================================
