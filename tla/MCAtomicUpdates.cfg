\* Two tasks update a variable with atomic instructions.
SPECIFICATION Spec
CONSTANTS
  t1 = t1  t2 = t2  int = int  long = long  double = double  stack = stack
  literal = literal  packed = packed  odd = odd  far = far  vptr = vptr
  Tasks = {t1, t2}
  Everyone = Everyone
  Addrs = {int, long, double, stack, literal, packed, odd, far, vptr}
  Private = {stack}
  ConstantData = {literal}
  Foreign = {far}
  OddSized = {odd}
  Words = {int, stack, literal, far}
  Misaligned = {packed}
  VTablePtrs = {vptr}
  Floats = {double}
  Instructions <- AtomicOps
  MaxLength = 2
SYMMETRY Symmetry
INVARIANTS Transparent
CHECK_DEADLOCK FALSE
