--------------------------- MODULE ProductRegistry ---------------------------
(***************************************************************************)
(* The rows of one command line product: the repository cli-releases, the  *)
(* package of its name with the channels, the product and its install      *)
(* keys.  An administrator may have created the repository and the package *)
(* before the product; creating the product takes them over.               *)
(*                                                                         *)
(* An install key is the number of the rotation that drew it; 0 is none.   *)
(*                                                                         *)
(* Source: internal/product/service.go, internal/repository/service.go,    *)
(* internal/release/package_service.go (Create).                           *)
(***************************************************************************)
EXTENDS Naturals

CONSTANT MaxKeys      \* how many install keys are drawn

ASSUME MaxKeysAssumption == MaxKeys \in Nat

VARIABLES
    registered,     \* which of the repository and the package have rows
    installKey,     \* install_key, 0 before the product is created
    previousKey,    \* previous_install_key
    expired         \* the keys whose previous_install_key_expires_at has passed

registryVars == <<registered, installKey, previousKey, expired>>

RegistryTypeOK ==
    /\ registered \in SUBSET {"repository", "package"}
    /\ installKey \in Nat
    /\ previousKey \in Nat
    /\ expired \in SUBSET Nat

RegistryInit ==
    /\ registered = {}
    /\ installKey = 0
    /\ previousKey = 0
    /\ expired = {}

CreateRepository ==
    /\ "repository" \notin registered
    /\ registered' = registered \cup {"repository"}
    /\ UNCHANGED <<installKey, previousKey, expired>>

\* With its channels candidate and stable.
CreatePackage ==
    /\ "repository" \in registered /\ "package" \notin registered
    /\ registered' = registered \cup {"package"}
    /\ UNCHANGED <<installKey, previousKey, expired>>

\* EnsureCLIRepository, EnsureProductPackage: rows that are there are taken over.
Ensured == registered \cup {"repository", "package"}

\* A second creation waits for the row of the first one and is a conflict.
CreateProduct ==
    /\ installKey = 0
    /\ MaxKeys > 0
    /\ registered' = Ensured
    /\ installKey' = 1
    /\ UNCHANGED <<previousKey, expired>>

\* One statement: the key before the previous one is forgotten, whether its 30 days
\* are over or not.
ReplaceKey ==
    /\ previousKey' = installKey
    /\ installKey' = installKey + 1

RotateInstallKey ==
    /\ installKey # 0
    /\ installKey < MaxKeys
    /\ ReplaceKey
    /\ UNCHANGED <<registered, expired>>

\* 30 days have passed since the rotation.
PreviousKeyExpires ==
    /\ previousKey \notin expired \cup {0}
    /\ expired' = expired \cup {previousKey}
    /\ UNCHANGED <<registered, installKey, previousKey>>

\* GetProductByInstallKey
Accepted(key) == key \in ({installKey} \cup ({previousKey} \ expired)) \ {0}

RegistryNext ==
    CreateRepository \/ CreatePackage \/ CreateProduct \/ RotateInstallKey \/ PreviousKeyExpires

=============================================================================
