SPECIFICATION Spec
CONSTANTS
  s1 = s1
  s2 = s2
  s3 = s3
  t1 = t1
  t2 = t2
  Configs <- MCConfigs
  Unparsable = "unparsable"
  Slots <- MCSlots
  Templates = {t1, t2}
  Wants <- MCWants
  Lists <- MCLists
  TemplateOf <- TwoTemplates
  LiveHolder = "live"
  MaxRaises = 2
  None = None
INVARIANTS
  TypoNeverFires
