SPECIFICATION SolverSpec
CONSTANT Piece = {p1, p2, p3, p4}
SYMMETRY Interchangeable
INVARIANTS
  MasksAreMarginals
PROPERTY KnowledgeImplemented
