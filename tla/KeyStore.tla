------------------------------ MODULE KeyStore ------------------------------
(***************************************************************************)
(* The keys of the device in one sector of NOR flash:                      *)
(* component/tailscale/ts_key_store.c and pm_generate_keys of              *)
(* peer_manager.c.  The power may fail at any step.                        *)
(*                                                                         *)
(* The record is written field by field from its start; an erase takes a   *)
(* while, and when it is interrupted a field may be anything.  The flash   *)
(* itself does not fail: the code looks at no result of it.                *)
(***************************************************************************)
EXTENDS Integers

CONSTANTS
    Identities,     \* key triples ts_keygen may come up with
    Erased,         \* a field of 0xff bytes
    Garbage         \* a field that is neither erased nor what was written

ASSUME KeyAssumption == Erased # Garbage /\ {Erased, Garbage} \cap Identities = {}

\* The record: machine, node and disco keys and the CRC over them.  A field is
\* named by the keys it belongs to; the magic counts as part of the first.
RecordLen == 4
Words == 1 .. RecordLen
Record(k) == [w \in Words |-> k]
Fields == Identities \union {Erased, Garbage}

VARIABLES
    sector,     \* the sector, field by field
    boot,       \* step of the boot, or "ready"
    written,    \* fields of the record written so far
    ram,        \* the keys in peer_manager_t, field by field
    used,       \* history: identities ever generated
    registered, \* history: keys the control server knows this device by
    wiped       \* was the store erased on purpose since the boot?

keyVars == <<sector, boot, written, ram, used, registered, wiped>>

Nothing == [w \in Words |-> Erased]

\* A device that was never switched on, its sector erased or not.
KeyInit ==
    /\ sector \in {Nothing, [Nothing EXCEPT ![1] = Garbage]}
    /\ boot = "off" /\ written = 0 /\ ram = Nothing
    /\ used = {} /\ registered = {} /\ wiped = FALSE

-----------------------------------------------------------------------------
\* Magic, version and CRC are those of one record.
Valid_NoCrc(s) == s[1] \in Identities
Valid(s) == \E k \in Identities : s = Record(k)

PowerOn ==
    /\ boot = "off"
    /\ boot' = "load" /\ wiped' = FALSE
    /\ UNCHANGED <<sector, written, ram, used, registered>>

\* ts_key_store_load, and ts_keygen when it finds nothing.
Load ==
    /\ boot = "load"
    /\ IF Valid(sector)
       THEN ram' = sector /\ boot' = "ready" /\ UNCHANGED used
       ELSE \E k \in Identities \ used :
                ram' = Record(k) /\ boot' = "erase" /\ used' = used \union {k}
    /\ UNCHANGED <<sector, written, registered, wiped>>

\* flash_erase_sector, while it runs.
Erase ==
    /\ boot = "erase"
    /\ sector' \in {s \in [Words -> {Erased, Garbage} \union {sector[w] : w \in Words}] :
                        \A w \in Words : s[w] \in {Erased, Garbage, sector[w]}}
    /\ boot' = "erasing"
    /\ UNCHANGED <<written, ram, used, registered, wiped>>

ErasedAll ==
    /\ boot = "erasing"
    /\ sector' = Nothing /\ written' = 0 /\ boot' = "write"
    /\ UNCHANGED <<ram, used, registered, wiped>>

\* flash_stream_write: a field that was not erased cannot be written.
WriteWord ==
    /\ boot = "write" /\ written < RecordLen
    /\ LET w == written + 1 IN
        sector' = [sector EXCEPT ![w] = IF @ = Erased THEN ram[w] ELSE Garbage]
    /\ written' = written + 1
    /\ UNCHANGED <<boot, ram, used, registered, wiped>>

\* ts_key_store_save returns 0.
Saved == boot = "write" /\ written = RecordLen
Ready ==
    /\ Saved
    /\ boot' = "ready"
    /\ UNCHANGED <<sector, written, ram, used, registered, wiped>>

\* do_register: the server learns the keys; a wiped device is one on its way out.
Register ==
    /\ boot = "ready"
    /\ registered' = IF wiped THEN registered ELSE registered \union {ram}
    /\ UNCHANGED <<sector, boot, written, ram, used, wiped>>

\* ts_key_store_erase, for a factory reset: the server's record no longer counts.
FactoryReset ==
    /\ boot = "ready"
    /\ sector' = Nothing /\ wiped' = TRUE /\ registered' = {}
    /\ UNCHANGED <<boot, written, ram, used>>

KeysLost ==
    /\ boot # "off"
    /\ boot' = "off" /\ ram' = Nothing /\ written' = 0 /\ wiped' = FALSE
    /\ UNCHANGED <<sector, used, registered>>

KeyNext ==
    \/ PowerOn \/ Load \/ Erase \/ ErasedAll \/ WriteWord \/ Ready
    \/ Register \/ FactoryReset \/ KeysLost

KeySpec == KeyInit /\ [][KeyNext]_keyVars

-----------------------------------------------------------------------------
(* Properties *)

\* Each variable keeps its kind.
KeyTypeOK ==
    /\ sector \in [Words -> Fields]
    /\ boot \in {"off", "load", "erase", "erasing", "write", "ready"}
    /\ written \in 0 .. RecordLen
    /\ ram \in [Words -> Fields]
    /\ used \subseteq Identities /\ wiped \in BOOLEAN
    /\ registered \subseteq [Words -> Fields]

\* Whenever the power fails, the server knows the device by one set of keys, and
\* the device finds those in its flash: it keeps its identity across reboots
\* unless it was reset.
IdentityKept ==
    \A keys \in registered :
        keys = sector /\ \E k \in Identities : keys = Record(k)
=============================================================================
