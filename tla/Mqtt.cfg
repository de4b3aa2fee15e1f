SPECIFICATION Spec
PROPERTIES
  ComesBack
