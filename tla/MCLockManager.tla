--------------------------- MODULE MCLockManager -----------------------------
(***************************************************************************)
(* The locks for TLC: one repository lock, or a provider of two slots.     *)
(***************************************************************************)
EXTENDS LockManager, TLC

CONSTANTS repo, slot0, slot1

ProviderSlots == {slot0, slot1}

OnlyRepository == {repo}

\* acquire_provider with two slots.
ProviderRequest == {<<slot0, slot1>>}

\* acquire_repository.
RepositoryRequest == {<<repo>>}

OwnerSymmetry == Permutations(Owners)
=============================================================================
