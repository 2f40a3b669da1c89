--------------------------- MODULE SettingsStore ---------------------------
(***************************************************************************)
(* What the settings promise (RawStorage in pkg/crc/config/types.go): a    *)
(* setting is stored or removed at once, and no other setting changes.     *)
(***************************************************************************)
CONSTANTS Keys, Values, NoValue

VARIABLE stored   \* the value of each setting, NoValue where there is none

Init == stored \in [Keys -> Values \cup {NoValue}]

Set(key, value) == stored' = [stored EXCEPT ![key] = value]
Unset(key) == stored' = [stored EXCEPT ![key] = NoValue]

Next == \E key \in Keys : Unset(key) \/ \E value \in Values : Set(key, value)

Spec == Init /\ [][Next]_stored

=============================================================================
