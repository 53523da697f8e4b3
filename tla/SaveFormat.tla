------------------------------ MODULE SaveFormat ------------------------------
(***************************************************************************)
(* The file that save writes and recover reads (src/persistence.cpp).      *)
(*                                                                         *)
(* A file is the snapshot it was encoded from, the parts whose bytes are   *)
(* not what serialize writes there (faults), and the enumerated bytes that *)
(* are no value of their enumeration (odd).  Numbers are fixed-width and   *)
(* come back as they were.                                                 *)
(***************************************************************************)
EXTENDS Authority, SequencesExt

(* The parts of a file in the order parse looks at them.  The checksum is  *)
(* compared before anything behind the version is decoded.                 *)
Parts ==
    <<"length", "magic", "version", "checksum", "authority", "buffers",
      "registrations", "domains", "remote_keys", "local_keys", "reasons",
      "accounting", "backends", "end">>

(* Parts that are a count followed by that many elements.                  *)
Lists ==
    {"buffers", "registrations", "domains", "remote_keys", "local_keys",
     "reasons", "backends"}

(* What can be wrong with a part: the part is not what it has to be, its   *)
(* bytes end early, its count is missing, or is beyond max_count.          *)
FaultsOf(part) ==
    CASE part \in {"magic", "version", "checksum", "end"} -> {"wrong"}
      [] part \in {"length", "authority", "accounting"} -> {"cut"}
      [] part \in Lists -> {"cut", "no count", "huge count"}

Faults == UNION {{part} \X FaultsOf(part) : part \in Range(Parts)}

------------------------------------------------------------------------------
(* Enumerated bytes, as <<part, element, field>>.                          *)

(* encode_descriptor writes these, decode_descriptor refuses an odd value  *)
(* in any of them.                                                         *)
EncodedOfDescriptor ==
    {"domain", "pointer_kind", "direction", "registration_mode", "lifetime",
     "provenance", "freshness"}
CheckedOfDescriptor ==
    {"domain", "pointer_kind", "direction", "registration_mode", "lifetime",
     "provenance", "freshness"}

(* encode_remote_key, encode_local_key and their decoders.                 *)
EncodedOfKey == {"transport", "provenance"}
CheckedOfKey == {"transport", "provenance"}

(* encode_registration: fields of its own, then the descriptor and both    *)
(* keys inside the record.  decode_registration.                           *)
EncodedOfRegistration ==
    ({"record"} \X {"domain", "transport_class", "provenance", "freshness",
                    "lifecycle"})
    \cup ({"descriptor"} \X EncodedOfDescriptor)
    \cup ({"remote_key", "local_key"} \X EncodedOfKey)
CheckedUpToFreshness ==                            \* mutant: lifecycle unchecked
    ({"record"} \X {"domain", "transport_class", "provenance", "freshness"})
    \cup ({"descriptor"} \X CheckedOfDescriptor)
    \cup ({"remote_key", "local_key"} \X CheckedOfKey)
CheckedOfRegistration ==
    ({"record"} \X {"domain", "transport_class", "provenance", "freshness",
                    "lifecycle"})
    \cup ({"descriptor"} \X CheckedOfDescriptor)
    \cup ({"remote_key", "local_key"} \X CheckedOfKey)

(* encode_backend_info; decode_backend_info refuses the first group and    *)
(* reads an odd value in the second as UNKNOWN.                            *)
Capabilities ==
    {"remote_read", "remote_write", "remote_atomic", "host_pinned",
     "pageable_registration", "cuda_device", "cuda_managed", "on_demand_paging",
     "one_sided", "multiprocess", "multinode", "key_rotation", "revocation",
     "provenance"}
EncodedOfBackend ==
    ({"info"} \X {"provenance", "state", "supported_domains"})
    \cup ({"capabilities"} \X Capabilities)
CheckedOfBackend == {"info"} \X {"provenance", "state", "supported_domains"}
ReadAsUnknown == {"capabilities"} \X Capabilities

(* The provenance encode_authority writes is read and dropped.             *)
Dropped == {<<"authority", "snapshot", "provenance">>}

In(part, fields) == {<<part, f[1], f[2]>> : f \in fields}

Enumerated ==
    Dropped
    \cup In("buffers", {"descriptor"} \X EncodedOfDescriptor)
    \cup In("registrations", EncodedOfRegistration)
    \cup In("remote_keys", {"key"} \X EncodedOfKey)
    \cup In("local_keys", {"key"} \X EncodedOfKey)
    \cup In("backends", EncodedOfBackend)

Checked ==
    In("buffers", {"descriptor"} \X CheckedOfDescriptor)
    \cup In("registrations", CheckedOfRegistration)
    \cup In("remote_keys", {"key"} \X CheckedOfKey)
    \cup In("local_keys", {"key"} \X CheckedOfKey)
    \cup In("backends", CheckedOfBackend)

------------------------------------------------------------------------------
(* parse.                                                                  *)

(* A part stops the parse.                                                 *)
ChecksumIgnored(file, part) ==                     \* mutant: never compared
    part # "checksum" /\ \E f \in file.faults : f[1] = part
StopsAt(file, part) ==
    \/ \E f \in file.faults : f[1] = part
    \/ \E o \in file.odd \cap Checked : o[1] = part

(* The error of a part that stops the parse.  Only the first list tells a  *)
(* missing count from an impossible one; an odd field reads as truncation. *)
FaultError(file, part) ==
    CASE part = "magic"    -> "BAD_MAGIC"
      [] part = "version"  -> "BAD_VERSION"
      [] part = "checksum" -> "CHECKSUM_MISMATCH"
      [] part = "end"      -> "TRAILING_GARBAGE"
      [] <<part, "huge count">> \in file.faults -> "IMPOSSIBLE_COUNT"
      [] <<part, "no count">> \in file.faults /\ part # "buffers" -> "IMPOSSIBLE_COUNT"
      [] OTHER -> "TRUNCATED"

(* The first element of a list whose generation is zero or whose id has    *)
(* been seen decides; of one element the generation is looked at first.    *)
RepeatsId(list, i) == \E j \in 1 .. i - 1 : list[j].id = list[i].id

IdentityErrors(list) ==
    {i \in DOMAIN list : list[i].gen = 0 \/ RepeatsId(list, i)}

IdentityError(list) ==
    LET first == CHOOSE i \in IdentityErrors(list) :
                     \A j \in IdentityErrors(list) : i <= j
    IN  IF list[first].gen = 0 THEN "GENERATION_REGRESSION" ELSE "DUPLICATE_IDENTITY"

(* Domains have no generation in the file.                                 *)
DomainList(snap) == [i \in DOMAIN snap.domains |-> [id |-> snap.domains[i], gen |-> 1]]

IdentityListsBuffersOnly(snap) == <<snap.buffers>>  \* mutant: the rest not checked
IdentityLists(snap) == <<snap.buffers, snap.regs, DomainList(snap)>>

(* "OK" or the error parse reports.                                        *)
Parse(file) ==
    LET stops == {i \in DOMAIN Parts : StopsAt(file, Parts[i])}
        lists == IdentityLists(file.snap)
        faulty == {i \in DOMAIN lists : IdentityErrors(lists[i]) # {}}
    IN  IF stops # {}
        THEN FaultError(file, Parts[CHOOSE i \in stops : \A j \in stops : i <= j])
        ELSE IF faulty # {}
        THEN IdentityError(lists[CHOOSE i \in faulty : \A j \in faulty : i <= j])
        ELSE "OK"

(* serialize.                                                              *)
Serialized(snap) == [snap |-> snap, faults |-> {}, odd |-> {}]
==============================================================================
