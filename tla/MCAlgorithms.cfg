SPECIFICATION Spec
CHECK_DEADLOCK FALSE
INVARIANTS RedactionSound ConfigSound HeadersSound PromSound RecordsSound CanonicalSound
