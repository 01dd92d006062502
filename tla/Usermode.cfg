SPECIFICATION Spec
CONSTANT Pad = 2
INVARIANT JumpUnreachable
