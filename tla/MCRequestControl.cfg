CONSTANT Callers = {c1, c2, c3}
SPECIFICATION Spec
SYMMETRY CallerSymmetry
INVARIANTS ReasonsAgree LateCallsFail
PROPERTIES ImplementsControl
