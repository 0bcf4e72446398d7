--------------------------- MODULE MCCredentialStore ---------------------------
(***************************************************************************)
(* CredentialStore with two records.  It is an instance, so that its proofs *)
(* can stand beside those about LinkSession, for which a credential is      *)
(* simply stored or not.                                                    *)
(***************************************************************************)
CONSTANTS Records, NoRecord, ReadsFail, MaxGeneration

VARIABLES slots, storePc, next, inRam, vouched, offered

Store == INSTANCE CredentialStore WITH
    pc <- storePc, credentials <- inRam, committed <- vouched

ASSUME StoreAssumption == Store!StoreAssumption

StoreSpec == Store!Spec

\* CredentialStore's CommittedIsStored: a committed record is the stored one.
CommittedIsStored == Store!CommittedIsStored

\* CredentialStore's ImplementsVault: the two slots behave as one record.
ImplementsVault == Store!ImplementsVault
================================================================================
